---------------------------- MODULE Spec2Model ----------------------------
(***************************************************************************)
(* A state-machine model of the slither server's simulation core: the     *)
(* input queue (InputHandler), the tick loop (GameLoop.tick) with its     *)
(* Physics, Collision, Food and Score systems, the spatial grid and the   *)
(* worm (Snake) and pellet (Food) entities.                               *)
(*                                                                         *)
(* Number representation.  The source computes in IEEE doubles; the model *)
(* computes in integers:                                                   *)
(*   - world coordinates are whole world units (pixels);                  *)
(*   - arc lengths along a path are hundredths of a unit;                 *)
(*   - angles are in units of 1/800 rad (0.15 rad = 120, pi = 2513);      *)
(*   - Math.cos / Math.sin are tabulated at 32 headings, times 1000;      *)
(*   - Snake.length is kept in fifths (0.2 is the boost mass burn);       *)
(*   - times are milliseconds, as Date.now() returns them.                *)
(***************************************************************************)
EXTENDS Integers, Sequences, FiniteSets, TLC

(***************************************************************************)
(* Program constants                                                       *)
(***************************************************************************)
SNAKE_SPEED == 150
INITIAL_SNAKE_LENGTH == 10
SEGMENT_RADIUS == 8
SEGMENT_SPACING == 15
FOOD_MIN_SIZE == 3
FOOD_MAX_SIZE == 8
MAGNET_RADIUS == 50
POINTS_PER_FOOD == 2
POINTS_PER_KILL == 100
WORLD_WIDTH == 5000
WORLD_HEIGHT == 5000
MAX_INPUT_RATE == 60
INPUT_BUFFER_SIZE == 10
SPATIAL_GRID_CELL_SIZE == 500
\* `private readonly maxLength = 500`
maxLength == 500
\* `if (snake.age < 3000) continue;`
GRACE_MS == 3000
\* `return diff <= 5000;`
MAX_TIMESTAMP_DIFF == 5000
\* `const maxStepSize = 4;`
maxStepSize == 4
\* `if (dist >= 2)` in appendToPath
PATH_RESOLUTION == 2
\* `if (this.path.length > 2000)`
MAX_PATH_POINTS == 2000
\* `const maxSpawnPerTick = 20;`
maxSpawnPerTick == 20
\* Math.max(-0.15, Math.min(0.15, angleDiff)), in angle units of 1/800 rad
MAX_TURN == 120
\* Math.PI in angle units of 1/800 rad
PI == 2513
\* Snake.length is kept in fifths: `this.length - 0.2` is one fifth
LEN_SCALE == 5
\* GAME_CONFIG.TICK_INTERVAL (1000 / 60) in whole milliseconds of the timer
TICK_MS == 17
\* Date.now() when the loop starts; the clock `now` of the model counts from it
EPOCH == 1000000
\* GAME_CONFIG.MAP_RADIUS is read by PhysicsSystem but game.config.ts defines
\* no such key: the value read is `undefined`, and every comparison with
\* undefined * undefined (NaN) is false.  NaN is the marker of that value.
NaN == -1
MAP_RADIUS == NaN

(***************************************************************************)
(* Bounds of the model                                                     *)
(***************************************************************************)
\* players that ever join
MaxPlayers == 2
\* ticks the loop runs
MaxTick == 2
\* FoodSystem.targetFoodCount (GAME_CONFIG.FOOD_COUNT = 1500 in production)
TargetFoodCount == 1
\* latest value of the clock
MaxTime == 3030
\* `input` messages the clients send one at a time
MaxInputs == 1
\* latest value of the clock while a client sends a command every 17 ms
QueueTime == 204
\* latest value of the clock while a client sends a command every millisecond
RateTime == 1040
\* sockets that ever connect
MaxSockets == 101
\* clients of a crowd that joins before the loop starts
CrowdSize == 4
\* latest value of the clock while a worm boosts
BoostTime == 620
\* the time the broadcasts run for
NetTime == 714
\* broadcasts of a run with a late loop
MaxBroadcasts == 3
\* join_room messages of a run with names of every kind
MaxJoins == 3
\* calls of the RoomManager in a run
MaxCalls == 3
\* latest value of the clock of a loop whose ticks may throw
ThrowTime == 80
\* latest value of the clock while a client sends commands of every kind
RejectTime == 22
TurnTicks == 4
CachePlayers == 202
MaxDraws == 2
RespawnTarget == 41
RespawnTicks == 4

(***************************************************************************)
(* utils/math.ts and the Snake's private helpers                           *)
(***************************************************************************)
Max(a, b) == IF a >= b THEN a ELSE b
Min(a, b) == IF a <= b THEN a ELSE b

\* a / b rounded to the nearest integer (b > 0)
RoundDiv(a, b) == (2 * a + b) \div (2 * b)

\* a / b truncated toward zero (b > 0)
TruncDiv(a, b) == IF a >= 0 THEN a \div b ELSE -((-a) \div b)

\* Math.ceil(a / b) for a >= 0, b > 0
CeilDiv(a, b) == (a + b - 1) \div b

RECURSIVE SqrtSearch(_, _, _)
SqrtSearch(n, lo, hi) ==
  IF lo >= hi THEN lo
  ELSE LET mid == (lo + hi + 1) \div 2
       IN IF mid * mid <= n THEN SqrtSearch(n, mid, hi)
          ELSE SqrtSearch(n, lo, mid - 1)

\* floor(Math.sqrt(n))
ISqrt(n) == SqrtSearch(n, 0, 46340)

Pt(x, y) == [x |-> x, y |-> y]

distanceSquared(a, b) ==
  (b.x - a.x) * (b.x - a.x) + (b.y - a.y) * (b.y - a.y)

\* Euclidean distance in hundredths of a unit
distance(a, b) == ISqrt(10000 * distanceSquared(a, b))

pointInCircle(point, center, radius) ==
  distanceSquared(point, center) <= radius * radius

circlesIntersect(center1, radius1, center2, radius2) ==
  distanceSquared(center1, center2) <= (radius1 + radius2) * (radius1 + radius2)

distanceToSegmentSquared(p, v, w) ==
  LET l2 == distanceSquared(v, w)
  IN IF l2 = 0 THEN distanceSquared(p, v)
     ELSE LET dot == (p.x - v.x) * (w.x - v.x) + (p.y - v.y) * (w.y - v.y)
              t1000 == Max(0, Min(1000, RoundDiv(1000 * dot, l2)))
          IN distanceSquared(p, Pt(v.x + RoundDiv(t1000 * (w.x - v.x), 1000),
                                   v.y + RoundDiv(t1000 * (w.y - v.y), 1000)))

TWO_PI == 2 * PI

RECURSIVE normalizeAngle(_)
normalizeAngle(angle) ==
  IF angle > PI THEN normalizeAngle(angle - TWO_PI)
  ELSE IF angle < -PI THEN normalizeAngle(angle + TWO_PI)
  ELSE angle

angleDifference(from, to) == normalizeAngle(to - from)

CosTable == <<1000, 981, 924, 831, 707, 556, 383, 195, 0, -195, -383, -556,
              -707, -831, -924, -981, -1000, -981, -924, -831, -707, -556,
              -383, -195, 0, 195, 383, 556, 707, 831, 924, 981>>
SinTable == <<0, 195, 383, 556, 707, 831, 924, 981, 1000, 981, 924, 831, 707,
              556, 383, 195, 0, -195, -383, -556, -707, -831, -924, -981,
              -1000, -981, -924, -831, -707, -556, -383, -195>>

\* index of the tabulated heading nearest to `angle`
TrigIndex(angle) == ((((angle % TWO_PI) * 32 + PI) \div TWO_PI) % 32) + 1

\* 1000 * Math.cos(angle), 1000 * Math.sin(angle)
Cos1000(angle) == CosTable[TrigIndex(angle)]
Sin1000(angle) == SinTable[TrigIndex(angle)]

(***************************************************************************)
(* entities/Snake.ts                                                       *)
(***************************************************************************)
\* the point `dist` units from `p` along heading `angle` (dist may be negative)
Along(p, angle, dist) ==
  Pt(p.x + RoundDiv(Cos1000(angle) * dist, 1000),
     p.y + RoundDiv(Sin1000(angle) * dist, 1000))

\* new Snake(...): a straight path of INITIAL_SNAKE_LENGTH points, tail first
NewSnake(id, playerId, position, direction, t) ==
  [id |-> id, playerId |-> playerId, head |-> position,
   direction |-> direction, targetDirection |-> direction,
   length |-> INITIAL_SNAKE_LENGTH * LEN_SCALE, speed |-> SNAKE_SPEED,
   isAlive |-> TRUE, spawnTime |-> t, isBoosting |-> FALSE,
   path |-> [i \in 1..INITIAL_SNAKE_LENGTH |->
               Along(position, direction,
                     -((INITIAL_SNAKE_LENGTH - i) * SEGMENT_SPACING))]]

\* get age(): Date.now() - this.spawnTime
age(s, t) == t - s.spawnTime

\* a setBoosting that flips the flag on every request to boost
setBoostingToggle(s, isBoosting) ==
  [s EXCEPT !.isBoosting = isBoosting /\ s.length > 5 * LEN_SCALE /\ ~s.isBoosting]

\* setBoosting(isBoosting): the flag is set only above length 5
setBoosting(s, isBoosting) ==
  [s EXCEPT !.isBoosting = isBoosting /\ s.length > 5 * LEN_SCALE]

changeDirection(s, newDirection) ==
  [s EXCEPT !.targetDirection = normalizeAngle(newDirection)]

\* a grow that assigns the amount instead of adding it
growAssign(s, amount) ==
  [s EXCEPT !.length = Min(amount * LEN_SCALE, maxLength * LEN_SCALE)]

\* grow(amount): Math.min(this.length + amount, this.maxLength)
grow(s, amount) ==
  [s EXCEPT !.length = Min(s.length + amount * LEN_SCALE, maxLength * LEN_SCALE)]

die(s) == [s EXCEPT !.isAlive = FALSE]

getHead(s) == [x |-> s.head.x, y |-> s.head.y, radius |-> SEGMENT_RADIUS + 2]

\* path[path.length - 1]: the newest point of the trail
getLastPathPoint(s) == s.path[Len(s.path)]

appendToPath(path, head) ==
  IF distanceSquared(head, path[Len(path)]) >= PATH_RESOLUTION * PATH_RESOLUTION
  THEN LET pushed == Append(path, head)
       IN IF Len(pushed) > MAX_PATH_POINTS THEN Tail(pushed) ELSE pushed
  ELSE path

\* one pass of the sub-step loop of move(): st = [direction, head, path]
subStep(st, stepDist, stepTurn) ==
  LET dir == normalizeAngle(st.direction + stepTurn)
      hd == Pt(st.head.x + RoundDiv(Cos1000(dir) * stepDist, 1000000),
               st.head.y + RoundDiv(Sin1000(dir) * stepDist, 1000000))
  IN [direction |-> dir, head |-> hd, path |-> appendToPath(st.path, hd)]

\* n passes of the sub-step loop, one after the other (the passes are split
\* in two halves so that the evaluation nests log n deep)
RECURSIVE SubSteps(_, _, _, _)
SubSteps(st, n, stepDist, stepTurn) ==
  IF n = 0 THEN st
  ELSE IF n = 1 THEN subStep(st, stepDist, stepTurn)
  ELSE LET half == SubSteps(st, n \div 2, stepDist, stepTurn)
       IN IF Len(half.path) > 0
          THEN SubSteps(half, n - (n \div 2), stepDist, stepTurn)
          ELSE half

\* the scan of trimPathByDistance, from the head backwards: the index (0-based,
\* as in the source) at which the accumulated length reaches maxPathLength,
\* or 0 when it never does
RECURSIVE TrimIndex(_, _, _, _)
TrimIndex(path, i, totalDistance, maxPathLength) ==
  IF i <= 0 THEN 0
  ELSE LET total == totalDistance + distance(path[i + 1], path[i])
       IN IF total >= maxPathLength THEN i
          ELSE TrimIndex(path, i - 1, total, maxPathLength)

\* a trim that keeps the path segment on which the target length is reached
trimKeepCrossing(path, length) ==
  LET maxPathLength == (length * SEGMENT_SPACING * 100) \div LEN_SCALE
      trimIndex == TrimIndex(path, Len(path) - 1, 0, maxPathLength)
  IN IF trimIndex > 0 THEN SubSeq(path, trimIndex, Len(path)) ELSE path

\* a trim that keeps the older side of the cut: path.slice(0, trimIndex)
trimKeepOld(path, length) ==
  LET maxPathLength == (length * SEGMENT_SPACING * 100) \div LEN_SCALE
      trimIndex == TrimIndex(path, Len(path) - 1, 0, maxPathLength)
  IN SubSeq(path, 1, trimIndex)

\* trimPathByDistance(): path.slice(trimIndex)
trimPathByDistance(path, length) ==
  LET maxPathLength == (length * SEGMENT_SPACING * 100) \div LEN_SCALE
      trimIndex == TrimIndex(path, Len(path) - 1, 0, maxPathLength)
  IN IF trimIndex > 0 THEN SubSeq(path, trimIndex + 1, Len(path)) ELSE path

\* move(deltaTime): dtMs is deltaTime in milliseconds, t is Date.now()
move(s, dtMs, t) ==
  IF ~s.isAlive THEN s
  ELSE
    LET boosted == s.isBoosting /\ s.length > 10 * LEN_SCALE
        currentSpeed == IF boosted THEN s.speed * 2 ELSE s.speed
        length1 == IF boosted /\ t % 300 < 50
                   THEN Max(10 * LEN_SCALE, s.length - 1) ELSE s.length
        angleDiff == angleDifference(s.direction, s.targetDirection)
        turnAmount == Max(-MAX_TURN, Min(MAX_TURN, angleDiff))
        direction1 == normalizeAngle(s.direction + turnAmount)
        \* distance in thousandths of a unit
        dist == currentSpeed * dtMs
        steps == CeilDiv(dist, maxStepSize * 1000)
        stepDist == IF steps = 0 THEN 0 ELSE dist \div steps
        stepTurn == IF steps = 0 THEN 0 ELSE TruncDiv(turnAmount, steps)
        st == SubSteps([direction |-> direction1, head |-> s.head, path |-> s.path],
                       steps, stepDist, stepTurn)
    IN [s EXCEPT !.isBoosting = boosted,
                 !.length = length1,
                 !.direction = st.direction,
                 !.head = st.head,
                 !.path = trimPathByDistance(st.path, length1)]

\* the sampling loop of getSegments(): walks path[i], path[i-1] (0-based i)
\* from the head backwards; `segs` are the samples so far
RECURSIVE SampleOn(_, _, _, _, _, _)
SampleOn(segs, p1, p2, segmentLength, currentDistance, length) ==
  IF currentDistance + segmentLength >= SEGMENT_SPACING * 100
     /\ Len(segs) * LEN_SCALE < length
  THEN LET remainingDist == SEGMENT_SPACING * 100 - currentDistance
           point == [x |-> p1.x + RoundDiv((p2.x - p1.x) * remainingDist, segmentLength),
                     y |-> p1.y + RoundDiv((p2.y - p1.y) * remainingDist, segmentLength),
                     radius |-> SEGMENT_RADIUS]
       IN SampleOn(Append(segs, point), p1, p2, segmentLength, 0, length)
  ELSE [segs |-> segs, currentDistance |-> currentDistance + segmentLength]

RECURSIVE SampleWalk(_, _, _, _, _)
SampleWalk(segs, path, i, currentDistance, length) ==
  IF i > 0 /\ Len(segs) * LEN_SCALE < length
  THEN LET r == SampleOn(segs, path[i + 1], path[i],
                         distance(path[i + 1], path[i]), currentDistance, length)
       IN SampleWalk(r.segs, path, i - 1, r.currentDistance, length)
  ELSE segs

\* getSegments(): the cache (segmentsDirty, cachedSegments) is refreshed by
\* every mutation of head, path or length, so the result is this function
getSegments(s) ==
  SampleWalk(<<getHead(s)>>, s.path, Len(s.path) - 1, 0, s.length)

(***************************************************************************)
(* Inputs of the model: what the transport, the clock and the random      *)
(* generator may deliver                                                   *)
(***************************************************************************)
\* <<position, heading>> pairs randomPosition() and randomAngle() may return
\* for a spawning worm: heading east, heading north
SpawnPoints == {<<Pt(2000, 2500), 0>>, <<Pt(2500, 2500), 1256>>}
\* positions randomPosition() may return for a respawned pellet
FoodPositions == {Pt(2010, 2500), Pt(2438, 2500)}
\* radii randomFloat(FOOD_MIN_SIZE, FOOD_MAX_SIZE) may return
FoodRadii == {5}
\* radii randomFloat(FOOD_MIN_SIZE + 2, FOOD_MAX_SIZE + 4) may return
LootRadii == {6, 11}
\* <<position, heading>> pairs for a worm that spawns near the east rim of the
\* world (randomPosition(worldSize, 200) stays 200 units inside it): heading
\* east, heading west, heading 3 pi / 2 (randomAngle() returns [0, 2 pi))
EdgeSpawnPoints == {<<Pt(4790, 2500), 0>>, <<Pt(4790, 2500), 2513>>, <<Pt(4790, 2500), 3770>>}
\* clock advances between two events, in ms
TimeSteps == {20, 2990}
\* clock advances between two ticks of a loop that is on time for 40 ms of
\* every 300 ms and then late, so that its ticks fall inside the mass-burn
\* window Date.now() % 300 < 50
BoostSteps == {20, 260}
\* headings a client may ask for
InputDirections == {1256}

\* the wire messages of the `input` event a client may send at time t; a field
\* the message lacks has its has* flag FALSE, timestamp 0 is a missing timestamp
Msg(type, direction, hasDirection, isBoosting, hasBoosting, hasName, timestamp) ==
  [type |-> type, direction |-> direction, hasDirection |-> hasDirection,
   isBoosting |-> isBoosting, hasBoosting |-> hasBoosting,
   hasName |-> hasName, timestamp |-> timestamp]

DirectionChange(d, t) == Msg("direction-change", d, TRUE, FALSE, FALSE, FALSE, t)
Boost(b, t) == Msg("boost", 0, FALSE, b, TRUE, FALSE, t)
SpawnCmd(t) == Msg("spawn", 0, FALSE, FALSE, FALSE, TRUE, t)

\* a well-formed command and one whose timestamp is too old
Inputs(t) ==
  {DirectionChange(d, t) : d \in InputDirections}
    \cup {DirectionChange(d, t - (MAX_TIMESTAMP_DIFF + 1)) : d \in InputDirections}

\* every kind of command, and a direction-change that carries no direction
QueueInputs(t) ==
  Inputs(t) \cup {Boost(TRUE, t), SpawnCmd(t),
                  Msg("direction-change", 0, FALSE, FALSE, FALSE, FALSE, t)}

\* the gap between two commands of a client that sends at the rate limit
ARRIVAL_MS == 17

\* data.playerName of a join_room message: is the field there, is it a string,
\* its length and the characters it is made of
Name(length, chars) == [given |-> TRUE, string |-> TRUE, length |-> length, chars |-> chars]
NoName == [given |-> FALSE, string |-> FALSE, length |-> 0, chars |-> {}]
GoodName == Name(2, {"A", "l"})
\* the characters of the class [a-zA-Z0-9 _-]
LegalChars ==
  {"a", "b", "c", "d", "e", "f", "g", "h", "i", "j", "k", "l", "m",
   "n", "o", "p", "q", "r", "s", "t", "u", "v", "w", "x", "y", "z",
   "A", "B", "C", "D", "E", "F", "G", "H", "I", "J", "K", "L", "M",
   "N", "O", "P", "Q", "R", "S", "T", "U", "V", "W", "X", "Y", "Z",
   "0", "1", "2", "3", "4", "5", "6", "7", "8", "9", " ", "_", "-"}
\* `name.length > 20`
NAME_MAX == 20

(***************************************************************************)
(* State                                                                   *)
(***************************************************************************)
VARIABLES
  now,             \* Date.now()
  pc,              \* where GameLoop.tick stands: "idle", "input", "systems", "increment"
  systemIndex,     \* index into GameLoop.systems of the system to run next
  lastTickTime,    \* GameLoop.lastTickTime
  deltaTime,       \* deltaTime of the running tick, in ms
  currentTick,     \* GameState.currentTick
  players,         \* GameState.players: player id -> Player
  snakes,          \* GameState.snakes: snake id -> Snake
  food,            \* GameState.food: food id -> Food
  socketData,      \* connected socket -> socket.data.playerId (-1: disconnected)
  socketRoom,      \* socket -> socket.data.roomId and the socket.io rooms joined
  nextId,          \* ids handed out so far: [player, snake, food]
  grid,            \* SpatialGrid.snakePositions: snake id -> set of cells
  foodPositions,   \* SpatialGrid.foodPositions: food id -> cell
  inputQueue,      \* InputHandler.inputQueue: player id -> commands
  lastInputTime,   \* InputHandler.lastInputTime: player id -> ms
  collisionEvents, \* CollisionSystem.collisionEvents
  deadSnakesProcessed, \* FoodSystem.deadSnakesProcessed
  leaderboard,     \* ScoreSystem.leaderboard
  \* history variables: they record what happened, no action reads them
  phaseLog,        \* the phases the running (or last) tick went through
  tickBase,        \* the World when the running (or last) tick began; did it throw;
                   \* the worms when the tick before it began
  accepted,        \* player id -> commands accepted since the last drain
  drain,           \* the last drain: the accepted logs it found, the commands it
                   \* applied, the players that had a living worm
  atCollision,     \* players, worms and food as the Collision phase found them
  lootLog,         \* snake id -> number of times it was converted to food
  inputCount,      \* `input` messages delivered so far
  gone,            \* ids of the players whose socket has disconnected
  lastInput,       \* the last `input` message delivered, with InputHandler's verdict
  joinLog,         \* the last join_room message handled, and what the handler emitted
  acceptLog,       \* player id -> times of the commands accepted in the last second
  updateCount,     \* StateBroadcaster.updateCount
  lastStates,      \* DeltaCompressor.lastStates: player id -> cached state
  gameStateRef,    \* player id -> gameStateRef.current of the player's client
  wire,            \* player id -> what the broadcasts have sent to the client
  cacheKeys,       \* lastStates.keys(): the cached player ids, oldest insertion first
  castLog,         \* the last call of broadcast(): who was due, who was done
  rooms,           \* RoomManager.rooms: room id -> its GameLoop's isRunning and live timers
  managerLog       \* the last call of the RoomManager and what it returned

vars ==
  <<now, pc, systemIndex, lastTickTime, deltaTime, currentTick, players,
    snakes, food, socketData, socketRoom, nextId, grid, foodPositions, inputQueue,
    lastInputTime, collisionEvents, deadSnakesProcessed, leaderboard,
    phaseLog, tickBase, accepted, drain, atCollision, lootLog, inputCount, gone, lastInput, joinLog,
    acceptLog, updateCount, lastStates, cacheKeys, gameStateRef, wire, castLog, rooms,
    managerLog>>

worldVars == <<players, snakes, food, socketData, socketRoom, nextId>>
gridVars == <<grid, foodPositions>>
inputVars == <<inputQueue, lastInputTime>>
tickVars == <<pc, systemIndex, lastTickTime, deltaTime, currentTick, phaseLog, tickBase>>
systemVars == <<collisionEvents, deadSnakesProcessed, leaderboard, lootLog>>
historyVars == <<accepted, drain, atCollision, inputCount, gone, lastInput, joinLog,
                 acceptLog>>
netVars == <<updateCount, lastStates, cacheKeys, gameStateRef, wire, castLog>>
roomVars == <<rooms, managerLog>>

\* a Map as a function: its keys, put, delete
Put(m, k, v) == [x \in DOMAIN m \cup {k} |-> IF x = k THEN v ELSE m[x]]
Del(m, ks) == [x \in DOMAIN m \ ks |-> m[x]]
EmptyMap == [x \in {} |-> 0]

(***************************************************************************)
(* core/RoomManager.ts and GameLoop.start, GameLoop.stop                   *)
(***************************************************************************)
\* `this.defaultRoomId = 'main'`
defaultRoomId == "main"
\* the ids of RoomManager.rooms after the constructor, which creates 'main'
Rooms == {defaultRoomId}

\* a new GameLoop, GameLoop.start and GameLoop.stop on [isRunning, timers];
\* timers counts the setInterval timers of the loop that have not been cleared
\* targetFoodCount is the field of the FoodSystem the loop constructs
NewLoopOf(target) == [isRunning |-> FALSE, timers |-> 0, targetFoodCount |-> target]
NewLoop == NewLoopOf(TargetFoodCount)
start(loop) ==
  IF loop.isRunning THEN loop
  ELSE [loop EXCEPT !.isRunning = TRUE, !.timers = loop.timers + 1]
stop(loop) ==
  IF ~loop.isRunning THEN loop
  ELSE [loop EXCEPT !.isRunning = FALSE, !.timers = loop.timers - 1]

\* RoomManager.createRoom on the Map of rooms
createRoom(rs, roomId) ==
  IF roomId \in DOMAIN rs THEN rs ELSE Put(rs, roomId, start(NewLoop))

\* a destroyRoom that does not spare the default room
destroyAnyRoom(rs, roomId) ==
  IF roomId \notin DOMAIN rs THEN rs
  ELSE Del(rs, {roomId})

\* RoomManager.destroyRoom on the Map of rooms
destroyRoom(rs, roomId) ==
  IF roomId \notin DOMAIN rs THEN rs
  ELSE IF roomId = defaultRoomId THEN rs
  ELSE Del(rs, {roomId})

\* RoomManager.assignPlayerToRoom
assignPlayerToRoom(playerId) == defaultRoomId

\* the keys of a Map of numeric ids in insertion order (ids are handed out
\* in increasing order, so insertion order is id order)
RECURSIVE Ordered(_)
Ordered(S) ==
  IF S = {} THEN <<>>
  ELSE LET m == CHOOSE x \in S : \A y \in S : x <= y
       IN <<m>> \o Ordered(S \ {m})

\* the systems with Collision ahead of Physics
systemsCollisionFirst ==
  <<"CollisionSystem", "PhysicsSystem", "FoodSystem", "ScoreSystem">>

\* the constructor's GameLoop.systems array
systems == <<"PhysicsSystem", "CollisionSystem", "FoodSystem", "ScoreSystem">>

\* the state after construction of a server whose FoodSystem keeps `target` food
Boot(target) ==
  /\ now = 0
  /\ pc = "idle"
  /\ systemIndex = 1
  /\ lastTickTime = 0
  /\ deltaTime = 0
  /\ currentTick = 0
  /\ players = EmptyMap
  /\ snakes = EmptyMap
  /\ food = EmptyMap
  /\ socketData = EmptyMap
  /\ socketRoom = EmptyMap
  /\ nextId = [player |-> 1, snake |-> 1, food |-> 1]
  /\ grid = EmptyMap
  /\ foodPositions = EmptyMap
  /\ inputQueue = EmptyMap
  /\ lastInputTime = EmptyMap
  /\ collisionEvents = <<>>
  /\ deadSnakesProcessed = {}
  /\ leaderboard = <<>>
  /\ phaseLog = <<>>
  /\ tickBase = [players |-> EmptyMap, snakes |-> EmptyMap, food |-> EmptyMap,
                 currentTick |-> 0, threw |-> FALSE, before |-> EmptyMap]
  /\ accepted = EmptyMap
  /\ drain = [accepted |-> EmptyMap, applied |-> EmptyMap, living |-> {}]
  /\ atCollision = [players |-> EmptyMap, snakes |-> EmptyMap, food |-> EmptyMap]
  /\ lootLog = EmptyMap
  /\ inputCount = 0
  /\ gone = {}
  /\ lastInput = <<>>
  /\ joinLog = [count |-> 0, sock |-> 0, playerName |-> NoName, events |-> <<>>]
  /\ acceptLog = EmptyMap
  /\ updateCount = 0
  /\ rooms = [id \in Rooms |-> start(NewLoopOf(target))]
  /\ managerLog = [count |-> 0, op |-> "", arg |-> "", result |-> ""]
  /\ castLog = [count |-> 0, due |-> {}, done |-> {}, threw |-> FALSE]
  /\ lastStates = EmptyMap
  /\ cacheKeys = <<>>
  /\ gameStateRef = EmptyMap
  /\ wire = EmptyMap

Init == Boot(TargetFoodCount)


(***************************************************************************)
(* core/GameState.ts                                                       *)
(***************************************************************************)
\* new Player(id, socketId, name).  `id` is the place of the player in the order
\* in which players were created, which is the order of the players Map; `text`
\* stands for the id string `player-<timestamp>-<random>` of randomId
NewPlayer(id, socketId, text) ==
  [id |-> id, socketId |-> socketId, score |-> 0, isAlive |-> FALSE, snakeId |-> 0,
   text |-> text]

\* GameState.removePlayer on the pair [players, snakes]
removePlayer(w, playerId) ==
  IF playerId \in DOMAIN w.players
  THEN [players |-> Del(w.players, {playerId}),
        snakes |-> IF w.players[playerId].snakeId # 0
                   THEN Del(w.snakes, {w.players[playerId].snakeId})
                   ELSE w.snakes]
  ELSE w

RECURSIVE removePlayers(_, _)
removePlayers(w, ids) ==
  IF ids = <<>> THEN w ELSE removePlayers(removePlayer(w, Head(ids)), Tail(ids))

\* GameState.addSnake on the pair [players, snakes]: Player.setSnake included
addSnake(w, snake) ==
  [players |-> IF snake.playerId \in DOMAIN w.players
               THEN [w.players EXCEPT ![snake.playerId].snakeId = snake.id,
                                      ![snake.playerId].isAlive = TRUE]
               ELSE w.players,
   snakes |-> Put(w.snakes, snake.id, snake)]

\* GameState.getSnakeByPlayerId: the first worm of the Map owned by the player, 0 if none
getSnakeByPlayerId(ss, playerId) ==
  LET own == {id \in DOMAIN ss : ss[id].playerId = playerId}
  IN IF own = {} THEN 0 ELSE CHOOSE id \in own : \A o \in own : id <= o

(***************************************************************************)
(* network/ConnectionManager.ts                                            *)
(***************************************************************************)
\* spawnSnake: position is what findSafeSpawnPosition returned (after its 20
\* attempts it returns any random position), direction what randomAngle returned
spawnSnake(w, playerId, position, direction, snakeId, t) ==
  addSnake(w, NewSnake(snakeId, playerId, position, direction, t))

\* roomManager.getRoom(roomId) is not null
roomExists(roomId) == roomId \in DOMAIN rooms

\* socket.data.playerId of a socket, 0 when the socket has not joined yet, and
\* the socket.io rooms it is in
playerIdOf(sock) == IF sock \in DOMAIN socketData THEN socketData[sock] ELSE 0
roomsOf(sock) == IF sock \in DOMAIN socketRoom THEN socketRoom[sock].rooms ELSE {}

\* the sockets that have joined, and the one that connects next
Sockets == (DOMAIN socketData \cup {Cardinality(DOMAIN socketData) + 1}) \cap 1..MaxSockets

\* a validator that lets a name of 21 characters through
validatePlayerNameLong(name) ==
  /\ name.given /\ name.string
  /\ name.length >= 1 /\ name.length <= NAME_MAX + 1
  /\ name.chars \subseteq LegalChars

\* validatePlayerName: a string of 1 to 20 characters that matches
\* /^[a-zA-Z0-9 _-]+$/
validatePlayerName(name) ==
  /\ name.given /\ name.string
  /\ name.length >= 1 /\ name.length <= NAME_MAX
  /\ name.chars \subseteq LegalChars

\* `!data.playerName`: no such field, or a falsy one (of the values here, '')
noPlayerName(name) == ~name.given \/ (name.string /\ name.length = 0)

\* handleJoinRoom on socket `sock` for the message [playerName, roomId]; the
\* name is validated first; the room is getRoom(roomId) || getDefaultRoom();
\* `random` is the random part of the id that randomId('player') returns
join_room(sock, playerName, roomId, random, position, direction) ==
  /\ pc = "idle"
  /\ roomExists(roomId) => roomId = defaultRoomId
  /\ playerIdOf(sock) >= 0
  /\ 1..(sock - 1) \subseteq DOMAIN socketData
  /\ IF noPlayerName(playerName) \/ ~validatePlayerName(playerName)
     THEN /\ joinLog' = [count |-> joinLog.count + 1, sock |-> sock,
                         playerName |-> playerName, events |-> <<"error INVALID_NAME">>]
          /\ UNCHANGED worldVars
     ELSE LET playersToRemove ==
                Ordered({pid \in DOMAIN players : players[pid].socketId = sock})
              w0 == removePlayers([players |-> players, snakes |-> snakes], playersToRemove)
              playerId == nextId.player
              text == [timestamp |-> now, random |-> random]
              w1 == [w0 EXCEPT !.players =
                       Put(w0.players, playerId, NewPlayer(playerId, sock, text))]
              w2 == spawnSnake(w1, playerId, position, direction, nextId.snake, now)
          IN /\ \A pid \in DOMAIN players : players[pid].text # text
             /\ players' = w2.players
             /\ snakes' = w2.snakes
             /\ socketData' = Put(socketData, sock, playerId)
             /\ socketRoom' = Put(socketRoom, sock,
                                  [roomId |-> roomId, rooms |-> roomsOf(sock) \cup {roomId}])
             /\ nextId' = [nextId EXCEPT !.player = @ + 1, !.snake = @ + 1]
             /\ joinLog' = [count |-> joinLog.count + 1, sock |-> sock,
                            playerName |-> playerName,
                            events |-> <<"player-spawned", "player-joined">>]
             /\ UNCHANGED food
  /\ UNCHANGED <<now, gridVars, inputVars, tickVars, systemVars, accepted, drain, atCollision,
                 inputCount, gone, lastInput, acceptLog, netVars, roomVars>>

\* handleJoinRoom for a message with a valid name, from a client whose id gets
\* a random part above those of the players before it
joinRoom(sock, roomId, position, direction) ==
  join_room(sock, GoodName, roomId, nextId.player, position, direction)

\* handleJoinRoom for a join_room message that names the room 'main' or none
handleJoinRoom(sock, position, direction) == joinRoom(sock, "main", position, direction)

\* a join_room message arrives, from one of the first MaxPlayers players
JoinRoom(sock, position, direction) ==
  /\ nextId.player <= MaxPlayers
  /\ handleJoinRoom(sock, position, direction)

(***************************************************************************)
(* utils/validation.ts and network/InputHandler.ts                         *)
(***************************************************************************)
\* the acceptance times of a log that lie in the one-second window ending at t
WINDOW_MS == 1000
InWindow(times, t) == SelectSeq(times, LAMBDA e : t - e <= WINDOW_MS)

validateInputCommand(input, t) ==
  /\ input.type # ""
  /\ input.timestamp # 0
  /\ (IF t >= input.timestamp THEN t - input.timestamp ELSE input.timestamp - t)
        <= MAX_TIMESTAMP_DIFF
  /\ CASE input.type = "direction-change" -> input.hasDirection
       [] input.type = "spawn" -> input.hasName
       [] input.type = "boost" -> TRUE
       [] OTHER -> FALSE

\* a limiter that lets a command through one millisecond early
checkRateLimitEarly(lastTimes, playerId, t) ==
  LET lastTime == IF playerId \in DOMAIN lastTimes THEN lastTimes[playerId] ELSE -EPOCH
  IN (t + 1 - lastTime) * MAX_INPUT_RATE >= 1000

\* timeSinceLastInput >= 1000 / MAX_INPUT_RATE, lastInputTime.get(playerId) || 0
checkRateLimit(lastTimes, playerId, t) ==
  LET lastTime == IF playerId \in DOMAIN lastTimes THEN lastTimes[playerId] ELSE -EPOCH
  IN (t - lastTime) * MAX_INPUT_RATE >= 1000

validateTimestamp(timestamp, t) ==
  (IF t >= timestamp THEN t - timestamp ELSE timestamp - t) <= MAX_TIMESTAMP_DIFF

\* a full queue that turns the new command away and keeps the oldest
enqueueKeepOldest(queue, input) ==
  IF Len(queue) >= INPUT_BUFFER_SIZE THEN queue ELSE Append(queue, input)

\* the queue after `queue.shift()` when full and `queue.push(input)`
enqueue(queue, input) ==
  Append(IF Len(queue) >= INPUT_BUFFER_SIZE THEN Tail(queue) ELSE queue, input)

\* InputHandler.handleInput's verdict
inputAccepted(playerId, input, t) ==
  /\ validateInputCommand(input, t)
  /\ checkRateLimit(lastInputTime, playerId, t)
  /\ validateTimestamp(input.timestamp, t)

\* a spawn command that respawns whoever sent it, alive or not
respawnAlways(ps, playerId, input) ==
  /\ input.type = "spawn"
  /\ playerId \in DOMAIN ps

\* `input.type === 'spawn'` and `player && !player.isAlive`
respawnDue(ps, playerId, input) ==
  /\ input.type = "spawn"
  /\ playerId \in DOMAIN ps
  /\ ~ps[playerId].isAlive

\* ConnectionManager.handleInput at time t: InputHandler.handleInput, then the
\* respawn of a player that is not alive when the message is a spawn command
handleInput(sock, input, position, direction, t) ==
  /\ pc = "idle"
  /\ playerIdOf(sock) > 0
  /\ LET playerId == socketData[sock]
         room == roomExists(socketRoom[sock].roomId)
         ok == room /\ inputAccepted(playerId, input, t)
         queue == IF playerId \in DOMAIN inputQueue THEN inputQueue[playerId] ELSE <<>>
         log == IF playerId \in DOMAIN accepted THEN accepted[playerId] ELSE <<>>
         times == IF playerId \in DOMAIN acceptLog THEN acceptLog[playerId] ELSE <<>>
         respawn == room /\ respawnDue(players, playerId, input)
         w == spawnSnake([players |-> players, snakes |-> snakes],
                         playerId, position, direction, nextId.snake, t)
     IN /\ inputQueue' = IF ok THEN Put(inputQueue, playerId, enqueue(queue, input))
                         ELSE inputQueue
        /\ lastInputTime' = IF ok THEN Put(lastInputTime, playerId, t)
                            ELSE lastInputTime
        /\ accepted' = IF ok THEN Put(accepted, playerId, Append(log, input))
                       ELSE accepted
        /\ acceptLog' = IF ok THEN Put(acceptLog, playerId, Append(InWindow(times, t), t))
                        ELSE acceptLog
        /\ players' = IF respawn THEN w.players ELSE players
        /\ snakes' = IF respawn THEN w.snakes ELSE snakes
        /\ nextId' = IF respawn THEN [nextId EXCEPT !.snake = @ + 1] ELSE nextId
        /\ lastInput' = <<[playerId |-> playerId, input |-> input, t |-> t, ok |-> ok]>>
  /\ inputCount' = inputCount + 1
  /\ UNCHANGED <<food, socketData, socketRoom, gridVars, tickVars, systemVars, drain, atCollision,
                 gone, joinLog, netVars, roomVars>>

\* an `input` message arrives while the clock stands
HandleInput(sock, input, position, direction) ==
  /\ inputCount < MaxInputs
  /\ handleInput(sock, input, position, direction, now)
  /\ UNCHANGED now

\* the next `input` message of a client that sends one every d milliseconds
Arrive(sock, d, input, position, direction) ==
  /\ handleInput(sock, input, position, direction, now + d)
  /\ now' = now + d

\* ConnectionManager.handleDisconnect: it returns when getRoom(socket.data.roomId)
\* is null, else InputHandler.removePlayer, GameState.removePlayer; the socket
\* leaves its socket.io rooms
Disconnect(sock) ==
  /\ pc = "idle"
  /\ playerIdOf(sock) > 0
  /\ LET playerId == socketData[sock]
         room == roomExists(socketRoom[sock].roomId)
         w == removePlayer([players |-> players, snakes |-> snakes], playerId)
     IN /\ inputQueue' = IF room THEN Del(inputQueue, {playerId}) ELSE inputQueue
        /\ lastInputTime' = IF room THEN Del(lastInputTime, {playerId}) ELSE lastInputTime
        /\ accepted' = IF room THEN Del(accepted, {playerId}) ELSE accepted
        /\ acceptLog' = IF room THEN Del(acceptLog, {playerId}) ELSE acceptLog
        /\ players' = IF room THEN w.players ELSE players
        /\ snakes' = IF room THEN w.snakes ELSE snakes
        /\ socketData' = [socketData EXCEPT ![sock] = -1]
        /\ socketRoom' = [socketRoom EXCEPT ![sock] = [roomId |-> "", rooms |-> {}]]
        /\ gone' = gone \cup {playerId}
  /\ UNCHANGED <<now, food, nextId, gridVars, tickVars, systemVars, drain, atCollision,
                 inputCount, lastInput, joinLog, netVars, roomVars>>

\* the clock advances until the interval timer of the loop is due again
AdvanceTime(d) ==
  /\ pc = "idle"
  /\ now = lastTickTime
  /\ now + d <= MaxTime
  /\ now' = now + d
  /\ UNCHANGED <<worldVars, gridVars, inputVars, tickVars, systemVars, historyVars, netVars,
                 roomVars>>

\* the input loop of processPlayerInputs: [snake, applied]
RECURSIVE applyInputs(_, _)
applyInputs(r, queue) ==
  IF queue = <<>> THEN r
  ELSE LET input == Head(queue)
           next ==
             IF input.type = "direction-change" /\ input.hasDirection
             THEN [snake |-> changeDirection(r.snake, input.direction),
                   applied |-> Append(r.applied, input)]
             ELSE IF input.type = "boost" /\ input.hasBoosting
             THEN [snake |-> setBoosting(r.snake, input.isBoosting),
                   applied |-> Append(r.applied, input)]
             ELSE r
       IN applyInputs(next, Tail(queue))

\* InputHandler.processPlayerInputs for one player: whether the queue was
\* applied to a living worm, and then the worm after it and the commands applied
processPlayerInputs(ss, queues, playerId) ==
  LET snakeId == getSnakeByPlayerId(ss, playerId)
      none == [ok |-> FALSE, snakeId |-> 0]
  IN IF queues[playerId] = <<>> \/ snakeId = 0 THEN none
     ELSE IF ~ss[snakeId].isAlive THEN none
     ELSE LET r == applyInputs([snake |-> ss[snakeId], applied |-> <<>>],
                               queues[playerId])
          IN [ok |-> TRUE, snakeId |-> snakeId, snake |-> r.snake,
              applied |-> r.applied]

(***************************************************************************)
(* core/GameLoop.ts                                                        *)
(***************************************************************************)
\* tick() computes deltaTime
TickStart ==
  /\ pc = "idle"
  /\ rooms[defaultRoomId].timers > 0
  /\ now > lastTickTime
  /\ deltaTime' = now - lastTickTime
  /\ lastTickTime' = now
  /\ pc' = "input"
  /\ systemIndex' = 1
  /\ phaseLog' = <<>>
  /\ tickBase' = [players |-> players, snakes |-> snakes, food |-> food,
                  currentTick |-> currentTick, threw |-> FALSE,
                  before |-> tickBase.snakes]
  /\ UNCHANGED <<now, currentTick, worldVars, gridVars, inputVars, systemVars, historyVars, netVars,
                 roomVars>>

\* setInterval(() => this.tick(), tickInterval) fires, however late
TickBegin == currentTick < MaxTick /\ TickStart

\* setInterval(() => this.tick(), tickInterval) fires on time
TickDue == now - lastTickTime >= TICK_MS /\ TickStart

\* PHASE 0: inputHandler.processAllInputs(gameState)
TickInput ==
  /\ pc = "input"
  /\ LET res == [p \in DOMAIN inputQueue |-> processPlayerInputs(snakes, inputQueue, p)]
         done == {p \in DOMAIN inputQueue : res[p].ok}
     IN /\ snakes' = [id \in DOMAIN snakes |->
                        IF \E p \in done : res[p].snakeId = id
                        THEN res[CHOOSE p \in done : res[p].snakeId = id].snake
                        ELSE snakes[id]]
        /\ drain' = [accepted |-> accepted, applied |-> [p \in done |-> res[p].applied],
                     living |-> {snakes[id].playerId :
                                   id \in {i \in DOMAIN snakes : snakes[i].isAlive}}]
  /\ inputQueue' = [p \in DOMAIN inputQueue |-> <<>>]
  /\ accepted' = [p \in DOMAIN accepted |-> <<>>]
  /\ pc' = "systems"
  /\ phaseLog' = Append(phaseLog, "input")
  /\ UNCHANGED tickBase
  /\ UNCHANGED <<now, systemIndex, lastTickTime, deltaTime, currentTick, players, food,
                 socketData, socketRoom, nextId, gridVars, lastInputTime, systemVars, atCollision,
                 inputCount, gone, lastInput, joinLog, acceptLog, netVars, roomVars>>


(***************************************************************************)
(* systems/PhysicsSystem.ts                                                *)
(***************************************************************************)
\* a * b and a > b on numbers that may be NaN
NumMul(a, b) == IF a = NaN \/ b = NaN THEN NaN ELSE a * b
NumGt(a, b) == a # NaN /\ b # NaN /\ a > b

\* handleWorldBoundaries: the worm dies when distSq > radius * radius
handleWorldBoundaries(s) ==
  LET dx == s.head.x - WORLD_WIDTH \div 2
      dy == s.head.y - WORLD_HEIGHT \div 2
      distSq == dx * dx + dy * dy
  IN IF NumGt(distSq, NumMul(MAP_RADIUS, MAP_RADIUS)) THEN die(s) ELSE s

PhysicsUpdate ==
  /\ snakes' = [id \in DOMAIN snakes |->
                  IF snakes[id].isAlive
                  THEN handleWorldBoundaries(move(snakes[id], deltaTime, now))
                  ELSE snakes[id]]
  /\ phaseLog' = Append(phaseLog, "physics")
  /\ UNCHANGED tickBase
  /\ UNCHANGED <<players, food, socketData, socketRoom, nextId, gridVars, systemVars, atCollision, netVars,
                 roomVars>>

(***************************************************************************)
(* systems/SpatialGrid.ts                                                  *)
(***************************************************************************)
\* getCellKey: Math.floor(x / cellSize), Math.floor(y / cellSize)
getCellKey(x, y) == <<x \div SPATIAL_GRID_CELL_SIZE, y \div SPATIAL_GRID_CELL_SIZE>>

getSnakeCells(s) ==
  LET segs == getSegments(s)
  IN {getCellKey(segs[i].x, segs[i].y) : i \in DOMAIN segs}

\* rebuild: snakePositions of every living worm; grid.get(cell) is derived from it
rebuild(ss) ==
  [id \in {i \in DOMAIN ss : ss[i].isAlive} |-> getSnakeCells(ss[id])]

\* grid.get(cellKey): the worm ids of a cell, in insertion order
cellSnakes(g, cell) == Ordered({id \in DOMAIN g : cell \in g[id]})

\* the 3x3 block of cells around a cell, in the order of the dx, dy loops
Block3x3(c) ==
  [k \in 1..9 |-> <<c[1] + ((k - 1) \div 3) - 1, c[2] + ((k - 1) % 3) - 1>>]

\* a query that also returns the dead worms of the Map
isLiveOrDead(ss, id) == id \in DOMAIN ss

\* a worm is returned by the grid queries when it is in the Map and alive
isLive(ss, id) == id \in DOMAIN ss /\ ss[id].isAlive

RECURSIVE collectSnakes(_, _, _, _)
collectSnakes(nearby, ids, self, ss) ==
  IF ids = <<>> THEN nearby
  ELSE LET id == Head(ids)
           seen == {nearby[i] : i \in DOMAIN nearby}
       IN collectSnakes(IF id # self /\ id \notin seen /\ isLive(ss, id)
                        THEN Append(nearby, id) ELSE nearby,
                        Tail(ids), self, ss)

RECURSIVE Concat(_)
Concat(seqs) == IF seqs = <<>> THEN <<>> ELSE Head(seqs) \o Concat(Tail(seqs))

\* getNearbySnakes: ids of the other living worms in the 3x3 block around the head
getNearbySnakes(g, s, ss) ==
  LET cells == Block3x3(getCellKey(s.head.x, s.head.y))
      ids == Concat([k \in 1..9 |-> cellSnakes(g, cells[k])])
  IN collectSnakes(<<>>, ids, s.id, ss)

\* the cells of the bounding square of (position, radius), cellX outer, cellY inner
RangeCells(position, radius) ==
  LET minX == (position.x - radius) \div SPATIAL_GRID_CELL_SIZE
      maxX == (position.x + radius) \div SPATIAL_GRID_CELL_SIZE
      minY == (position.y - radius) \div SPATIAL_GRID_CELL_SIZE
      maxY == (position.y + radius) \div SPATIAL_GRID_CELL_SIZE
      ny == maxY - minY + 1
  IN [k \in 1..((maxX - minX + 1) * ny) |->
        <<minX + ((k - 1) \div ny), minY + ((k - 1) % ny)>>]

\* foodGrid.get(cellKey), derived from foodPositions
cellFood(fp, cell) == Ordered({id \in DOMAIN fp : fp[id] = cell})

\* getFoodInRadius: ids of the indexed, unconsumed food in the cells of the range
getFoodInRadius(fp, position, radius, allFood) ==
  LET cells == RangeCells(position, radius)
      ids == Concat([k \in DOMAIN cells |-> cellFood(fp, cells[k])])
  IN SelectSeq(ids, LAMBDA id : id \in DOMAIN allFood /\ ~allFood[id].isConsumed)

\* removeFood
removeFood(fp, foodId) == Del(fp, {foodId})

\* initializeFood: clear, then addFood for every food item
initializeFood(allFood) ==
  [id \in DOMAIN allFood |-> getCellKey(allFood[id].position.x, allFood[id].position.y)]


(***************************************************************************)
(* systems/CollisionSystem.ts                                              *)
(***************************************************************************)
\* no grace period at all
inGracePeriodNever(s, t) == FALSE

\* `if (snake.age < 3000) continue;`: the worm is inside its grace period
inGracePeriod(s, t) == age(s, t) < GRACE_MS

\* the segment loop of checkSnakeCollisions: the head of s meets a segment of other
headHits(s, other, t) ==
  LET head == getHead(s)
      otherSegments == getSegments(other)
  IN \E i \in DOMAIN otherSegments :
       /\ ~inGracePeriod(s, t)
       /\ circlesIntersect(head, head.radius, otherSegments[i], otherSegments[i].radius)

Event(type, snakeId, targetId, position, t) ==
  [type |-> type, snakeId |-> snakeId, targetId |-> targetId,
   position |-> position, timestamp |-> t]

\* the loop of checkSnakeCollisions over the worms `ids`: r = [snakes, events]
RECURSIVE checkSnakeCollisions(_, _, _, _)
checkSnakeCollisions(r, ids, g, t) ==
  IF ids = <<>> THEN r
  ELSE
    LET s == r.snakes[Head(ids)]
        nearbySnakes == getNearbySnakes(g, s, r.snakes)
        hits == {k \in DOMAIN nearbySnakes : headHits(s, r.snakes[nearbySnakes[k]], t)}
        first == CHOOSE k \in hits : \A j \in hits : k <= j
        next ==
          IF ~s.isAlive \/ hits = {} THEN r
          ELSE [snakes |-> [r.snakes EXCEPT ![s.id] = die(s)],
                events |-> Append(r.events,
                                  Event("snake-snake", s.id, nearbySnakes[first],
                                        s.head, t))]
    IN checkSnakeCollisions(next, Tail(ids), g, t)

\* the head is on the food, or the food is on the segment from the head to
\* getLastPathPoint()
foodEaten(s, f) ==
  LET head == getHead(s)
      grabRadius == head.radius + f.radius
  IN \/ pointInCircle(f.position, head, grabRadius)
     \/ distanceToSegmentSquared(f.position, head, getLastPathPoint(s))
          <= grabRadius * grabRadius

\* a food loop that neither tests nor sets isConsumed and leaves the grid alone
RECURSIVE eatNearbyUnmarked(_, _, _, _)
eatNearbyUnmarked(r, snakeId, nearbyFood, t) ==
  IF nearbyFood = <<>> THEN r
  ELSE
    LET s == r.snakes[snakeId]
        foodId == Head(nearbyFood)
        f == r.food[foodId]
        next ==
          IF ~foodEaten(s, f) THEN r
          ELSE [snakes |-> [r.snakes EXCEPT ![snakeId] = grow(s, f.value)],
                food |-> r.food,
                foodPositions |-> r.foodPositions,
                events |-> Append(r.events,
                                  Event("snake-food", snakeId, foodId, f.position, t)),
                players |-> IF s.playerId \in DOMAIN r.players
                            THEN [r.players EXCEPT ![s.playerId].score =
                                    @ + f.value * POINTS_PER_FOOD]
                            ELSE r.players]
    IN eatNearbyUnmarked(next, snakeId, Tail(nearbyFood), t)

\* the food loop of checkFoodCollisions for the worm snakeId:
\* r = [snakes, food, players, foodPositions, events]
RECURSIVE eatNearby(_, _, _, _)
eatNearby(r, snakeId, nearbyFood, t) ==
  IF nearbyFood = <<>> THEN r
  ELSE
    LET s == r.snakes[snakeId]
        foodId == Head(nearbyFood)
        f == r.food[foodId]
        next ==
          IF f.isConsumed \/ ~foodEaten(s, f) THEN r
          ELSE [snakes |-> [r.snakes EXCEPT ![snakeId] = grow(s, f.value)],
                food |-> [r.food EXCEPT ![foodId].isConsumed = TRUE],
                foodPositions |-> removeFood(r.foodPositions, foodId),
                events |-> Append(r.events,
                                  Event("snake-food", snakeId, foodId, f.position, t)),
                players |-> IF s.playerId \in DOMAIN r.players
                            THEN [r.players EXCEPT ![s.playerId].score =
                                    @ + f.value * POINTS_PER_FOOD]
                            ELSE r.players]
    IN eatNearby(next, snakeId, Tail(nearbyFood), t)

RECURSIVE checkFoodCollisions(_, _, _)
checkFoodCollisions(r, ids, t) ==
  IF ids = <<>> THEN r
  ELSE
    LET s == r.snakes[Head(ids)]
        head == getHead(s)
        searchRadius == head.radius + FOOD_MAX_SIZE * 2
        nearbyFood == getFoodInRadius(r.foodPositions, head, searchRadius, r.food)
        next == IF s.isAlive THEN eatNearby(r, s.id, nearbyFood, t) ELSE r
    IN checkFoodCollisions(next, Tail(ids), t)

\* CollisionSystem.update: rebuild the grid, worm-worm, worm-food; the self
\* collision pass is switched off (`if (false)`)
collide ==
  LET g == rebuild(snakes)
      ids == Ordered(DOMAIN snakes)
      r1 == checkSnakeCollisions([snakes |-> snakes, events |-> <<>>], ids, g, now)
      r2 == checkFoodCollisions([snakes |-> r1.snakes, food |-> food,
                                 players |-> players, foodPositions |-> foodPositions,
                                 events |-> r1.events], ids, now)
  IN [grid |-> g, snakes |-> r2.snakes, food |-> r2.food, players |-> r2.players,
      foodPositions |-> r2.foodPositions, events |-> r2.events]

CollisionUpdate ==
  \E r \in {collide} :
     /\ grid' = r.grid
     /\ snakes' = r.snakes
     /\ food' = r.food
     /\ players' = r.players
     /\ foodPositions' = r.foodPositions
     /\ collisionEvents' = r.events
     /\ atCollision' = [players |-> players, snakes |-> snakes, food |-> food]
     /\ phaseLog' = phaseLog \o <<"index", "collision">>
     /\ UNCHANGED tickBase
     /\ UNCHANGED <<socketData, socketRoom, nextId, deadSnakesProcessed, leaderboard, lootLog, netVars,
                 roomVars>>

(***************************************************************************)
(* systems/FoodSystem.ts                                                   *)
(***************************************************************************)
NewFood(id, position, value, radius) ==
  [id |-> id, position |-> position, value |-> value, radius |-> radius,
   isConsumed |-> FALSE]

\* the food items one dead worm is converted into, with ids from firstId on;
\* every item of the conversion draws the radius `radius`
lootOf(s, firstId, radius) ==
  LET segments == getSegments(s)
      foodPerSegment == Max(1, s.length \div (20 * LEN_SCALE))
      segmentStep == Max(1, Len(segments) \div (Len(segments) * foodPerSegment))
      picked == {i \in 0..(Len(segments) - 1) : i % segmentStep = 0}
      foodValue == Max(1, radius \div 2)
  IN [k \in 1..Cardinality(picked) |->
        LET segment == segments[(k - 1) * segmentStep + 1]
        IN NewFood(firstId + k - 1, Pt(segment.x, segment.y), foodValue, radius)]

RECURSIVE PutAll(_, _)
PutAll(m, items) ==
  IF items = <<>> THEN m ELSE PutAll(Put(m, Head(items).id, Head(items)), Tail(items))

\* the loop of processDeadSnakes: r = [food, processed, nextFood, log]
RECURSIVE processDeadSnakes(_, _, _, _)
processDeadSnakes(r, ids, ss, radius) ==
  IF ids = <<>> THEN r
  ELSE
    LET s == ss[Head(ids)]
        loot == lootOf(s, r.nextFood, radius)
        next ==
          IF s.isAlive \/ s.id \in r.processed THEN r
          ELSE [food |-> PutAll(r.food, loot),
                processed |-> r.processed \cup {s.id},
                nextFood |-> r.nextFood + Len(loot),
                log |-> Put(r.log, s.id,
                            Append(IF s.id \in DOMAIN r.log THEN r.log[s.id] ELSE <<>>,
                                   Len(loot)))]
    IN processDeadSnakes(next, Tail(ids), ss, radius)

\* a cleanup that deletes nothing
cleanupNothing(ss, processed) == {}

\* cleanupDeadSnakes: the ids it deletes from the Map and from the tracking set
cleanupDeadSnakes(ss, processed) ==
  {id \in DOMAIN ss : ~ss[id].isAlive /\ id \in processed}

\* one food item under the magnet of one head; dtMs is deltaTime in ms
pull(f, head, dtMs) ==
  LET inRange == distanceSquared(head, f.position) < MAGNET_RADIUS * MAGNET_RADIUS
      dist == distance(head, f.position)
      factor == MAGNET_RADIUS * 100 - dist
      \* minSpeed + (maxSpeed - minSpeed) * (factor / radius)^2, in units per second
      speed == 50 + RoundDiv(11 * factor * factor, 500000)
      travel == RoundDiv(speed * dtMs, 1000)
      dx == head.x - f.position.x
      dy == head.y - f.position.y
  IN IF f.isConsumed \/ ~inRange THEN f
     ELSE IF dist = 0 THEN [f EXCEPT !.position = Pt(f.position.x + travel, f.position.y)]
     ELSE [f EXCEPT !.position = Pt(f.position.x + RoundDiv(travel * dx * 100, dist),
                                    f.position.y + RoundDiv(travel * dy * 100, dist))]

RECURSIVE applyMagnetEffect(_, _, _, _)
applyMagnetEffect(fd, ids, ss, dtMs) ==
  IF ids = <<>> THEN fd
  ELSE LET s == ss[Head(ids)]
           next == IF s.isAlive
                   THEN [id \in DOMAIN fd |-> pull(fd[id], s.head, dtMs)]
                   ELSE fd
       IN applyMagnetEffect(next, Tail(ids), ss, dtMs)

removeConsumedFood(fd) == Del(fd, {id \in DOMAIN fd : fd[id].isConsumed})

\* a spawnFood without the limit per tick
toSpawnAll(fd) ==
  Max(0, rooms[defaultRoomId].targetFoodCount - Cardinality(DOMAIN fd))

\* the number of items spawnFood adds
toSpawn(fd) ==
  Max(0, Min(rooms[defaultRoomId].targetFoodCount - Cardinality(DOMAIN fd),
             maxSpawnPerTick))

\* the <<position, radius>> draws of the random generator for n new items:
\* every combination for up to MaxDraws items, one draw for all of them beyond
Draws(n) ==
  IF n <= MaxDraws THEN [1..n -> FoodPositions \X FoodRadii]
  ELSE {[k \in 1..n |-> d] : d \in FoodPositions \X FoodRadii}

\* FoodSystem.update up to spawnFood: processDeadSnakes (with cleanupDeadSnakes),
\* applyMagnetEffect, removeConsumedFood; lootRadius is the radius the random
\* generator returns for the loot
beforeSpawn(lootRadius) ==
  LET ids == Ordered(DOMAIN snakes)
      r == processDeadSnakes([food |-> food, processed |-> deadSnakesProcessed,
                              nextFood |-> nextId.food, log |-> lootLog],
                             ids, snakes, lootRadius)
      removed == cleanupDeadSnakes(snakes, r.processed)
      snakes1 == Del(snakes, removed)
      food1 == applyMagnetEffect(r.food, Ordered(DOMAIN snakes1), snakes1, deltaTime)
  IN [snakes |-> snakes1, processed |-> r.processed \ removed,
      food |-> removeConsumedFood(food1), nextFood |-> r.nextFood, log |-> r.log]

\* spawnFood: draws[k] is the <<position, radius>> the random generator returns
\* for the k-th new item (findSafeSpawnPosition falls back to any position)
spawnFood(fd, firstId, draws) ==
  PutAll(fd, [k \in DOMAIN draws |-> NewFood(firstId + k - 1, draws[k][1], 1, draws[k][2])])

FoodUpdate ==
  \E lootRadius \in LootRadii :
    \E r \in {beforeSpawn(lootRadius)} :
       \E draws \in Draws(toSpawn(r.food)) :
         /\ snakes' = r.snakes
         /\ deadSnakesProcessed' = r.processed
         /\ food' = spawnFood(r.food, r.nextFood, draws)
         /\ nextId' = [nextId EXCEPT !.food = r.nextFood + Len(draws)]
         /\ lootLog' = r.log
         /\ phaseLog' = Append(phaseLog, "food")
         /\ UNCHANGED tickBase
         /\ UNCHANGED <<players, socketData, socketRoom, gridVars, collisionEvents, leaderboard,
                        atCollision, netVars, roomVars>>

(***************************************************************************)
(* systems/ScoreSystem.ts                                                  *)
(***************************************************************************)
LEADERBOARD_SIZE == 10
\* the maxPlayers of the room 'main'
MAX_PLAYERS_PER_ROOM == 100

\* entries.sort((a, b) => b.score - a.score): a stable sort of the player ids
RECURSIVE sortByScore(_, _)
sortByScore(ids, ps) ==
  IF ids = <<>> THEN <<>>
  ELSE LET best == CHOOSE k \in DOMAIN ids :
                     /\ \A j \in DOMAIN ids : ps[ids[j]].score <= ps[ids[k]].score
                     /\ \A j \in 1..(k - 1) : ps[ids[j]].score < ps[ids[k]].score
           rest == [j \in 1..(Len(ids) - 1) |-> IF j < best THEN ids[j] ELSE ids[j + 1]]
       IN <<ids[best]>> \o sortByScore(rest, ps)

updateLeaderboard(ps) ==
  LET sorted == sortByScore(Ordered(DOMAIN ps), ps)
      top == SubSeq(sorted, 1, Min(Len(sorted), LEADERBOARD_SIZE))
  IN [k \in DOMAIN top |->
        [playerId |-> top[k], score |-> ps[top[k]].score, rank |-> k]]

ScoreUpdate ==
  /\ leaderboard' = updateLeaderboard(players)
  /\ phaseLog' = Append(phaseLog, "score")
  /\ UNCHANGED tickBase
  /\ UNCHANGED <<worldVars, gridVars, collisionEvents, deadSnakesProcessed, lootLog,
                 atCollision, netVars, roomVars>>

(***************************************************************************)
(* core/GameLoop.ts: the loop over the systems and the end of the tick     *)
(***************************************************************************)
\* the bookkeeping of one pass of `for (const system of this.systems)`
SystemStep(name) ==
  /\ pc = "systems"
  /\ systems[systemIndex] = name
  /\ systemIndex' = systemIndex + 1
  /\ pc' = IF systemIndex = Len(systems) THEN "increment" ELSE "systems"
  /\ UNCHANGED <<now, lastTickTime, deltaTime, currentTick, inputVars, accepted, drain,
                 inputCount, gone, lastInput, joinLog, acceptLog, netVars, roomVars>>

TickPhysics == SystemStep("PhysicsSystem") /\ PhysicsUpdate

TickCollision == SystemStep("CollisionSystem") /\ CollisionUpdate

TickFood == SystemStep("FoodSystem") /\ FoodUpdate

TickScore == SystemStep("ScoreSystem") /\ ScoreUpdate

\* this.gameState.incrementTick()
TickEnd ==
  /\ pc = "increment"
  /\ currentTick' = currentTick + 1
  /\ pc' = "idle"
  /\ UNCHANGED <<now, systemIndex, lastTickTime, deltaTime, phaseLog, tickBase, worldVars,
                 gridVars, inputVars, systemVars, historyVars, netVars, roomVars>>

\* processAllInputs or system.update throws: `catch (error)` logs the error and
\* tick() returns; what the tick has done so far stays done
TickThrow ==
  /\ pc \in {"input", "systems"}
  /\ pc' = "idle"
  /\ tickBase' = [tickBase EXCEPT !.threw = TRUE]
  /\ UNCHANGED <<now, systemIndex, lastTickTime, deltaTime, currentTick, phaseLog,
                 worldVars, gridVars, inputVars, systemVars, historyVars, netVars, roomVars>>

Tick ==
  \/ TickInput
  \/ TickPhysics
  \/ TickCollision
  \/ TickFood
  \/ TickScore
  \/ TickEnd

Next ==
  \/ \E sock \in Sockets, sp \in SpawnPoints : JoinRoom(sock, sp[1], sp[2])
  \/ \E sock \in DOMAIN socketData, input \in Inputs(now), sp \in SpawnPoints :
       HandleInput(sock, input, sp[1], sp[2])
  \/ \E sock \in DOMAIN socketData : Disconnect(sock)
  \/ \E d \in TimeSteps : AdvanceTime(d)
  \/ TickBegin
  \/ Tick

Spec == Init /\ [][Next]_vars

(***************************************************************************)
(* The program with its food grid filled: SpatialGrid.initializeFood has   *)
(* no caller, here it is called between ticks                              *)
(***************************************************************************)
IndexFood ==
  /\ pc = "idle"
  /\ foodPositions' = initializeFood(food)
  /\ foodPositions' # foodPositions
  /\ UNCHANGED <<now, grid, worldVars, inputVars, tickVars, systemVars, historyVars, netVars,
                 roomVars>>

NextIndexed ==
  \/ \E sock \in Sockets, sp \in SpawnPoints : JoinRoom(sock, sp[1], sp[2])
  \/ \E d \in TimeSteps : AdvanceTime(d)
  \/ IndexFood
  \/ TickBegin
  \/ Tick

SpecIndexed == Init /\ [][NextIndexed]_vars

(***************************************************************************)
(* One client that sends a command every ARRIVAL_MS while the loop is late *)
(***************************************************************************)
JoinOnce ==
  /\ players = EmptyMap
  /\ \E sp \in SpawnPoints : JoinRoom(1, sp[1], sp[2])

NextQueue ==
  \/ JoinOnce
  \/ \E input \in QueueInputs(now), sp \in SpawnPoints : HandleInput(1, input, sp[1], sp[2])
  \/ /\ now + ARRIVAL_MS <= QueueTime
     /\ \E d \in InputDirections, sp \in SpawnPoints :
          Arrive(1, ARRIVAL_MS, DirectionChange(d, now + ARRIVAL_MS), sp[1], sp[2])
  \/ TickBegin
  \/ Tick

SpecQueue == Init /\ [][NextQueue]_vars

(***************************************************************************)
(* One client that sends a command every millisecond while the loop ticks  *)
(* on time                                                                 *)
(***************************************************************************)
NextRate ==
  \/ JoinOnce
  \/ \E input \in QueueInputs(now), sp \in SpawnPoints : HandleInput(1, input, sp[1], sp[2])
  \/ /\ now + 1 <= RateTime
     /\ now + 1 <= lastTickTime + TICK_MS
     /\ \E d \in InputDirections, sp \in SpawnPoints :
          Arrive(1, 1, DirectionChange(d, now + 1), sp[1], sp[2])
  \/ TickDue
  \/ Tick

SpecRate == Init /\ [][NextRate]_vars

(***************************************************************************)
(* A crowd: every socket joins before the loop starts                      *)
(***************************************************************************)
JoinCrowd ==
  /\ now = 0
  /\ nextId.player <= CrowdSize
  /\ \E sock \in Sockets, sp \in SpawnPoints :
       handleJoinRoom(sock, sp[1], sp[2])

NextCrowd ==
  \/ JoinCrowd
  \/ \E d \in TimeSteps : AdvanceTime(d)
  \/ TickBegin
  \/ Tick

SpecCrowd == Init /\ [][NextCrowd]_vars

(***************************************************************************)
(* Worms that spawn near the rim of the world                              *)
(***************************************************************************)
NextEdge ==
  \/ \E sock \in Sockets, sp \in EdgeSpawnPoints : JoinRoom(sock, sp[1], sp[2])
  \/ \E d \in TimeSteps : AdvanceTime(d)
  \/ TickBegin
  \/ Tick

SpecEdge == Init /\ [][NextEdge]_vars

(***************************************************************************)
(* One client that boosts, with the food grid filled between ticks         *)
(***************************************************************************)
NextBoost ==
  \/ now = 0 /\ JoinOnce
  \/ \E sp \in SpawnPoints : HandleInput(1, Boost(TRUE, now), sp[1], sp[2])
  \/ \E d \in BoostSteps :
       /\ (d = 20) = (now % 300 < 40)
       /\ now + d <= BoostTime
       /\ AdvanceTime(d)
  \/ IndexFood
  \/ TickStart
  \/ Tick

SpecBoost == Init /\ [][NextBoost]_vars

(***************************************************************************)
(* network/StateBroadcaster.ts, network/DeltaCompressor.ts and the client's *)
(* handlers of `game-state` and `delta-update`                             *)
(***************************************************************************)
\* `this.updateCount % 40 === 0`
RESYNC_INTERVAL == 40
\* NETWORK_CONFIG.VIEWPORT_RADIUS, VIEWPORT_BUFFER
VIEWPORT_RADIUS == 1500
VIEWPORT_BUFFER == 200
\* `foodCount < 50`: the food a spectator is sent
SPECTATOR_FOOD == 50
\* 1000 / NETWORK_CONFIG.UPDATE_RATE, in whole milliseconds
UPDATE_MS == 17

\* Snake.serialize(), without the fields that never change (color, skinId,
\* name); score is Math.floor(length * 10)
serialize(s) ==
  [id |-> s.id, playerId |-> s.playerId, head |-> s.head, direction |-> s.direction,
   length |-> s.length, isBoosting |-> s.isBoosting,
   score |-> (s.length * 10) \div LEN_SCALE, path |-> s.path]

\* SpatialGrid.getSnakesInRadius: ids of the living worms in the cells of the range
getSnakesInRadius(g, position, radius, ss) ==
  LET cells == RangeCells(position, radius)
      ids == Concat([k \in DOMAIN cells |-> cellSnakes(g, cells[k])])
  IN collectSnakes(<<>>, ids, 0, ss)

\* serializeStateForPlayer: what a living player sees around its head, and what
\* a player without a living worm sees
serializeStateForPlayer(playerId) ==
  LET snakeId == getSnakeByPlayerId(snakes, playerId)
      searchRadius == VIEWPORT_RADIUS + VIEWPORT_BUFFER
      alive == snakeId # 0 /\ snakes[snakeId].isAlive
      snakeIds == IF alive
                  THEN getSnakesInRadius(grid, snakes[snakeId].head, searchRadius, snakes)
                  ELSE SelectSeq(Ordered(DOMAIN snakes), LAMBDA id : snakes[id].isAlive)
      unconsumed == SelectSeq(Ordered(DOMAIN food), LAMBDA id : ~food[id].isConsumed)
      foodIds == IF alive
                 THEN getFoodInRadius(foodPositions, snakes[snakeId].head, searchRadius, food)
                 ELSE SubSeq(unconsumed, 1, Min(Len(unconsumed), SPECTATOR_FOOD))
  IN [tick |-> currentTick,
      snakes |-> [k \in DOMAIN snakeIds |-> serialize(snakes[snakeIds[k]])],
      food |-> [k \in DOMAIN foodIds |->
                  [id |-> foodIds[k], position |-> food[foodIds[k]].position,
                   value |-> food[foodIds[k]].value, radius |-> food[foodIds[k]].radius]],
      leaderboard |-> leaderboard]

\* the element of a list of serialized entities with the id, or <<>> for none
byId(list, id) == SelectSeq(list, LAMBDA e : e.id = id)

\* `dist > 100`: the head jump that counts as a teleport
TELEPORT_DIST == 100

\* an update that carries the path whenever the head has moved
computeSnakeChangesPathOnMove(oldSnake, newSnake) ==
  LET changed == {f \in {"head", "direction", "length", "score"} :
                    oldSnake[f] # newSnake[f]}
      withPath == IF newSnake.path # <<>> /\ oldSnake.head # newSnake.head
                  THEN {"path"} ELSE {}
  IN IF changed \cup withPath = {} THEN <<>>
     ELSE <<[f \in changed \cup withPath \cup {"id"} |-> newSnake[f]]>>

\* computeSnakeChanges: the fields of newSnake that differ, and the path after
\* a teleport, as the update { id, ...changes }, or <<>> for null
computeSnakeChanges(oldSnake, newSnake) ==
  LET changed == {f \in {"head", "direction", "length", "score"} :
                    oldSnake[f] # newSnake[f]}
      withPath == IF /\ newSnake.path # <<>>
                     /\ \/ oldSnake.path = <<>>
                        \/ distanceSquared(newSnake.head, oldSnake.head)
                             > TELEPORT_DIST * TELEPORT_DIST
                  THEN {"path"} ELSE {}
  IN IF changed \cup withPath = {} THEN <<>>
     ELSE <<[f \in changed \cup withPath \cup {"id"} |-> newSnake[f]]>>

\* computeSnakeDelta: added, updated and removed are empty where the source
\* leaves the key out
computeSnakeDelta(oldSnakes, newSnakes) ==
  [added |-> SelectSeq(newSnakes, LAMBDA n : byId(oldSnakes, n.id) = <<>>),
   updated |-> Concat([k \in DOMAIN newSnakes |->
                         IF byId(oldSnakes, newSnakes[k].id) = <<>> THEN <<>>
                         ELSE computeSnakeChanges(byId(oldSnakes, newSnakes[k].id)[1],
                                                  newSnakes[k])]),
   removed |-> [k \in DOMAIN SelectSeq(oldSnakes, LAMBDA o : byId(newSnakes, o.id) = <<>>) |->
                  SelectSeq(oldSnakes, LAMBDA o : byId(newSnakes, o.id) = <<>>)[k].id]]

\* computeFoodDelta: a position is sent as updated when it moved more than 0.1
computeFoodDelta(oldFood, newFood) ==
  [added |-> SelectSeq(newFood, LAMBDA n : byId(oldFood, n.id) = <<>>),
   updated |-> Concat([k \in DOMAIN newFood |->
                         IF byId(oldFood, newFood[k].id) = <<>> THEN <<>>
                         ELSE IF byId(oldFood, newFood[k].id)[1].position
                                   # newFood[k].position
                         THEN <<[id |-> newFood[k].id, position |-> newFood[k].position]>>
                         ELSE <<>>]),
   removed |-> [k \in DOMAIN SelectSeq(oldFood, LAMBDA o : byId(newFood, o.id) = <<>>) |->
                  SelectSeq(oldFood, LAMBDA o : byId(newFood, o.id) = <<>>)[k].id]]

\* cacheState: the copy of a state that lastStates keeps (a worm is copied
\* without isBoosting)
cacheState(state) ==
  [tick |-> state.tick,
   leaderboard |-> state.leaderboard,
   snakes |-> [k \in DOMAIN state.snakes |->
                 [id |-> state.snakes[k].id, playerId |-> state.snakes[k].playerId,
                  head |-> state.snakes[k].head, direction |-> state.snakes[k].direction,
                  length |-> state.snakes[k].length, score |-> state.snakes[k].score,
                  path |-> state.snakes[k].path]],
   food |-> state.food]

\* `private readonly maxCachedStates = 200`
maxCachedStates == 200

\* the end of cacheState: lastStates.set(playerId, cachedState), then the
\* first key of the Map is deleted when the Map has grown past
\* maxCachedStates; c = [states, keys], a set() of a key the Map has keeps
\* the key's place
cachePut(c, playerId, cachedState) ==
  LET states == Put(c.states, playerId, cachedState)
      keys == IF playerId \in DOMAIN c.states THEN c.keys ELSE Append(c.keys, playerId)
  IN IF Len(keys) > maxCachedStates
     THEN [states |-> Del(states, {Head(keys)}), keys |-> Tail(keys), seen |-> c.seen]
     ELSE [states |-> states, keys |-> keys, seen |-> c.seen]

\* the calls of computeDelta of one broadcast, one player after the other:
\* lastStates.get(playerId), kept in `seen` when there is one, then cacheState
RECURSIVE cacheAll(_, _, _)
cacheAll(c, ids, state) ==
  IF ids = <<>> THEN c
  ELSE LET p == Head(ids)
           got == IF p \in DOMAIN c.states
                  THEN [c EXCEPT !.seen = Put(c.seen, p, c.states[p])]
                  ELSE c
       IN cacheAll(cachePut(got, p, cacheState(state[p])), Tail(ids), state)

\* computeDelta given lastState: the delta, and whether it is sent (not null)
computeDelta(lastState, currentState) ==
  LET snakeDelta == computeSnakeDelta(lastState.snakes, currentState.snakes)
      foodDelta == computeFoodDelta(lastState.food, currentState.food)
      hasSnakes == snakeDelta.added # <<>> \/ snakeDelta.updated # <<>>
                     \/ snakeDelta.removed # <<>>
      hasFood == foodDelta.added # <<>> \/ foodDelta.updated # <<>>
                   \/ foodDelta.removed # <<>>
      hasLeaderboard == lastState.leaderboard # currentState.leaderboard
  IN [tick |-> currentState.tick, snakes |-> snakeDelta, food |-> foodDelta,
      hasLeaderboard |-> hasLeaderboard, leaderboard |-> currentState.leaderboard,
      sent |-> hasSnakes \/ hasFood \/ hasLeaderboard]

\* the loop over delta.snakes.updated: Object.assign on the first worm with the id
RECURSIVE assignUpdates(_, _)
assignUpdates(list, updates) ==
  IF updates = <<>> THEN list
  ELSE LET update == Head(updates)
           hits == {k \in DOMAIN list : list[k].id = update.id}
           first == CHOOSE k \in hits : \A j \in hits : k <= j
       IN assignUpdates(
            IF hits = {} THEN list
            ELSE [list EXCEPT ![first] =
                    [f \in DOMAIN list[first] |->
                       IF f \in DOMAIN update THEN update[f] ELSE list[first][f]]],
            Tail(updates))

\* the client's applyDelta(delta)
applyDelta(state, delta) ==
  LET removedSnakes == {delta.snakes.removed[k] : k \in DOMAIN delta.snakes.removed}
      removedFood == {delta.food.removed[k] : k \in DOMAIN delta.food.removed}
  IN [tick |-> delta.tick,
      snakes |-> SelectSeq(assignUpdates(state.snakes \o delta.snakes.added,
                                         delta.snakes.updated),
                           LAMBDA e : e.id \notin removedSnakes),
      food |-> SelectSeq(state.food \o delta.food.added,
                         LAMBDA e : e.id \notin removedFood),
      leaderboard |-> IF delta.hasLeaderboard THEN delta.leaderboard
                      ELSE state.leaderboard]

\* useRef<GameState>({ tick: 0, snakes: [], food: [], leaderboard: [] })
initialGameState == [tick |-> 0, snakes |-> <<>>, food |-> <<>>, leaderboard |-> <<>>]

\* StateBroadcaster.broadcast(): every socket of a player is sent the full state
\* on every RESYNC_INTERVAL-th call and a delta, when there is one, otherwise;
\* the client handles the message at once.  wire[p] records the last full state
\* sent to p and the call that sent it, the state `at` the last delta stands
\* for, the call that sent that delta, the cached state `from` which it was
\* computed and its list of updated worms.  The sockets are visited in the
\* order in which they joined the room; when the work for socket `thrower`
\* throws (thrower = 0: nothing throws), the catch around the two loops ends
\* the call: the sockets before it have been sent their update, and the player
\* of `thrower` has its state cached when it was the emit of a delta that threw
cast(thrower, stage) ==
  /\ pc = "idle"
  /\ LET count == updateCount + 1
         shouldSendFullState == count % RESYNC_INTERVAL = 0
         inRoom == {k \in DOMAIN socketData :
                      /\ socketData[k] > 0
                      /\ socketRoom[k].rooms \cap DOMAIN rooms # {}
                      /\ socketData[k] \in DOMAIN players}
         reached == {k \in inRoom : thrower = 0 \/ k < thrower}
         due == {socketData[k] : k \in inRoom}
         to == {socketData[k] : k \in reached}
         emitThrew == IF thrower \in inRoom /\ stage = "emit" /\ ~shouldSendFullState
                      THEN {socketData[thrower]} ELSE {}
         client(p) == IF p \in DOMAIN gameStateRef THEN gameStateRef[p] ELSE initialGameState
         sentTo(p) == IF p \in DOMAIN wire THEN wire[p]
                      ELSE [hasFull |-> FALSE, full |-> initialGameState, fullCount |-> 0,
                            hasDelta |-> FALSE, at |-> initialGameState,
                            deltaCount |-> 0, from |-> initialGameState,
                            updated |-> <<>>]
         visited == Ordered(reached) \o (IF emitThrew # {} THEN <<thrower>> ELSE <<>>)
         ids == [k \in DOMAIN visited |-> socketData[visited[k]]]
     IN \E fullState \in {[p \in to \cup emitThrew |-> serializeStateForPlayer(p)]} :
        \E cache \in {cacheAll([states |-> lastStates, keys |-> cacheKeys,
                                 seen |-> EmptyMap], ids, fullState)} :
          \E delta \in {[p \in to \cap DOMAIN cache.seen |->
                           computeDelta(cache.seen[p], fullState[p])]} :
            /\ updateCount' = count
            /\ lastStates' = IF shouldSendFullState THEN lastStates ELSE cache.states
            /\ cacheKeys' = IF shouldSendFullState THEN cacheKeys ELSE cache.keys
            /\ gameStateRef' =
                 [p \in DOMAIN gameStateRef \cup to |->
                    IF p \notin to THEN gameStateRef[p]
                    ELSE IF shouldSendFullState THEN fullState[p]
                    ELSE IF p \in DOMAIN delta /\ delta[p].sent
                    THEN applyDelta(client(p), delta[p])
                    ELSE client(p)]
            /\ wire' =
                 [p \in DOMAIN wire \cup to |->
                    IF p \notin to THEN wire[p]
                    ELSE IF shouldSendFullState
                    THEN [sentTo(p) EXCEPT !.hasFull = TRUE, !.full = fullState[p],
                                           !.fullCount = count, !.hasDelta = FALSE,
                                           !.at = fullState[p]]
                    ELSE IF p \in DOMAIN delta /\ delta[p].sent
                    THEN [sentTo(p) EXCEPT !.hasDelta = TRUE, !.at = fullState[p],
                                           !.deltaCount = count,
                                           !.from = cache.seen[p],
                                           !.updated = delta[p].snakes.updated]
                    ELSE sentTo(p)]
            /\ castLog' = [count |-> count, due |-> due, done |-> to,
                           threw |-> thrower \in inRoom]
  /\ UNCHANGED <<now, worldVars, gridVars, inputVars, tickVars, systemVars, historyVars,
                 roomVars>>

\* a call of broadcast() in which nothing throws
broadcast == cast(0, "build")

\* a call of broadcast() in which serializeStateForPlayer or socket.emit throws
\* for one socket of the room
broadcastThrows ==
  \E thrower \in DOMAIN socketData, stage \in {"build", "emit"} :
    /\ socketData[thrower] \in DOMAIN players
    /\ socketRoom[thrower].rooms \cap DOMAIN rooms # {}
    /\ cast(thrower, stage)

(***************************************************************************)
(* Two clients, the loop and the broadcaster both on time                  *)
(***************************************************************************)
\* the time at which the second client joins, and the time at which the first
\* client asks to boost
JoinLate == (RESYNC_INTERVAL - 1) * TICK_MS
NetInputTimes == {(RESYNC_INTERVAL + 1) * TICK_MS}

NextNet ==
  \/ now = 0 /\ JoinOnce
  \/ /\ now = JoinLate
     /\ \E sp \in SpawnPoints : JoinRoom(2, sp[1], sp[2])
  \/ /\ now \in NetInputTimes
     /\ \E sp \in SpawnPoints : HandleInput(1, Boost(TRUE, now), sp[1], sp[2])
  \/ /\ updateCount * UPDATE_MS >= now
     /\ now + TICK_MS <= NetTime
     /\ AdvanceTime(TICK_MS)
  \/ /\ (updateCount + 1) * UPDATE_MS <= now
     /\ broadcast
  \/ TickDue
  \/ Tick

SpecNet == Init /\ [][NextNet]_vars

(***************************************************************************)
(* Two clients that join and leave, a loop that may be late, and a few      *)
(* broadcasts                                                               *)
(***************************************************************************)
NextCast ==
  \/ /\ now = 0
     /\ \E sock \in {1, 2}, sp \in SpawnPoints : JoinRoom(sock, sp[1], sp[2])
  \/ Disconnect(2)
  \/ \E d \in TimeSteps : AdvanceTime(d)
  \/ TickBegin
  \/ Tick
  \/ updateCount < MaxBroadcasts /\ broadcast

SpecCast == Init /\ [][NextCast]_vars

(***************************************************************************)
(* Properties                                                              *)
(***************************************************************************)
IsPrefix(s, t) == Len(s) <= Len(t) /\ SubSeq(t, 1, Len(s)) = s

LastN(s, n) == IF Len(s) <= n THEN s ELSE SubSeq(s, Len(s) - n + 1, Len(s))

Get(m, k) == IF k \in DOMAIN m THEN m[k] ELSE <<>>

RECURSIVE Sum(_, _)
Sum(f, S) ==
  IF S = {} THEN 0
  ELSE LET x == CHOOSE y \in S : TRUE IN f[x] + Sum(f, S \ {x})

\* the phase that ran last in the running (or the last) tick
lastPhase == IF phaseLog = <<>> THEN "" ELSE phaseLog[Len(phaseLog)]

\* the worm-worm and the worm-food events of the last Collision phase
killEvents == {k \in DOMAIN collisionEvents : collisionEvents[k].type = "snake-snake"}
foodEvents == {k \in DOMAIN collisionEvents : collisionEvents[k].type = "snake-food"}

\* the head of W lies on a segment of O
headOn(W, O) ==
  LET head == getHead(W)
      segs == getSegments(O)
  IN \E i \in DOMAIN segs : circlesIntersect(head, head.radius, segs[i], segs[i].radius)

\* the food items the last Collision phase consumed
eatenNow ==
  {f \in DOMAIN atCollision.food :
     ~atCollision.food[f].isConsumed /\ f \in DOMAIN food /\ food[f].isConsumed}

\* the head of W is within grab distance of F
inGrab(W, F) == pointInCircle(F.position, W.head, getHead(W).radius + F.radius)

PhaseOrder == <<"input", "physics", "index", "collision", "food", "score">>

\* C1: in every tick the phases run once each in the order input, physics,
\* index, collision, food, score, and currentTick goes up by exactly one,
\* only once the score phase has run, in every tick that completes
C1_Step ==
  /\ IsPrefix(phaseLog', PhaseOrder)
  /\ phaseLog' # phaseLog =>
        \/ phaseLog' = <<>> /\ pc = "idle"
        \/ IsPrefix(phaseLog, phaseLog')
  /\ currentTick' # currentTick =>
        /\ phaseLog = PhaseOrder
        /\ phaseLog' = PhaseOrder
        /\ currentTick' = currentTick + 1
  /\ (pc # "idle" /\ pc' = "idle") => currentTick' = currentTick + 1

C1_PhaseOrder == [][C1_Step]_vars

\* two ticks have completed
C1_TwoTicks == pc = "idle" /\ currentTick = 2 /\ phaseLog = PhaseOrder

isWormCommand(c) == c.type = "direction-change" \/ c.type = "boost"

\* C2: the commands a drain applies to the living worm of a player are the worm
\* commands among the last INPUT_BUFFER_SIZE commands accepted for the player
\* since the previous drain, in the order of their acceptance; a queue holds
\* the last INPUT_BUFFER_SIZE commands accepted, never more; after the input
\* phase every queue is empty
C2_Fifo ==
  /\ \A p \in drain.living :
       Get(drain.applied, p)
         = SelectSeq(LastN(Get(drain.accepted, p), INPUT_BUFFER_SIZE), isWormCommand)
  /\ \A p \in DOMAIN inputQueue :
       /\ Len(inputQueue[p]) <= INPUT_BUFFER_SIZE
       /\ inputQueue[p] = LastN(Get(accepted, p), INPUT_BUFFER_SIZE)
  /\ pc \in {"systems", "increment"} => \A p \in DOMAIN inputQueue : inputQueue[p] = <<>>

\* a drain found more commands accepted than the queue holds and applied a
\* full queue
C2_Overflow ==
  /\ pc = "systems"
  /\ \E p \in drain.living :
       /\ Len(Get(drain.accepted, p)) > INPUT_BUFFER_SIZE
       /\ Len(Get(drain.applied, p)) = INPUT_BUFFER_SIZE

\* C3: at most MAX_INPUT_RATE commands of a player are accepted in any window
\* of one second
C3_RateLimit ==
  \A p \in DOMAIN acceptLog : Len(acceptLog[p]) <= MAX_INPUT_RATE

\* a client sending every millisecond has as many commands accepted in one
\* second as the spacing of the limiter admits
C3_Saturated ==
  \E p \in DOMAIN acceptLog : Len(acceptLog[p]) = (WINDOW_MS \div ARRIVAL_MS) + 1

\* C4: a worm younger than the grace period at the Collision phase is alive
\* after it and is the victim of no worm-worm event of it
C4_GraceImmunity ==
  lastPhase = "collision" =>
    \A id \in DOMAIN atCollision.snakes :
      (atCollision.snakes[id].isAlive /\ age(atCollision.snakes[id], now) < GRACE_MS) =>
         /\ id \in DOMAIN snakes
         /\ snakes[id].isAlive
         /\ \A k \in killEvents : collisionEvents[k].snakeId # id

\* a young worm whose head lay on a segment of another living worm came
\* through the Collision phase alive
C4_YoungOverlap ==
  /\ lastPhase = "collision"
  /\ \E id, o \in DOMAIN atCollision.snakes :
       /\ id # o
       /\ atCollision.snakes[id].isAlive
       /\ atCollision.snakes[o].isAlive
       /\ age(atCollision.snakes[id], now) < GRACE_MS
       /\ headOn(atCollision.snakes[id], atCollision.snakes[o])
       /\ snakes[id].isAlive

\* C5: the killer named by a worm-worm event was alive when the Collision
\* phase began and is the victim of no earlier event of the same phase
C5_KillerAlive ==
  lastPhase = "collision" =>
    \A k \in killEvents :
      /\ collisionEvents[k].targetId \in DOMAIN atCollision.snakes
      /\ atCollision.snakes[collisionEvents[k].targetId].isAlive
      /\ \A j \in killEvents : j < k => collisionEvents[j].snakeId # collisionEvents[k].targetId

\* two worms past their grace period met head on: the first died of the
\* second, and the second, whose head lay on the first, stayed alive
C5_HeadOn ==
  /\ lastPhase = "collision"
  /\ \E k \in killEvents :
       LET V == atCollision.snakes[collisionEvents[k].snakeId]
           K == atCollision.snakes[collisionEvents[k].targetId]
       IN /\ age(K, now) >= GRACE_MS
          /\ headOn(K, V)
          /\ snakes[K.id].isAlive

\* C6: at the end of a tick the player of the killer of every worm-worm event
\* of the tick has POINTS_PER_KILL more than at the Collision phase
C6_KillReward ==
  pc = "increment" =>
    \A k \in killEvents :
      LET P == atCollision.snakes[collisionEvents[k].targetId].playerId
      IN (P \in DOMAIN players /\ P \in DOMAIN atCollision.players) =>
           players[P].score >= atCollision.players[P].score + POINTS_PER_KILL

\* C7: a worm is converted to loot once, into at least one food item, and is
\* then out of the World; once the Food phase has run every worm that was dead
\* after the Collision phase has been converted and no dead worm is left
C7_DeadToLoot ==
  /\ \A id \in DOMAIN lootLog :
       /\ Len(lootLog[id]) = 1
       /\ lootLog[id][1] >= 1
       /\ id \notin DOMAIN snakes
  /\ lastPhase \in {"food", "score"} =>
       /\ \A id \in DOMAIN snakes : snakes[id].isAlive
       /\ \A id \in DOMAIN atCollision.snakes :
            (~atCollision.snakes[id].isAlive
               \/ \E k \in killEvents : collisionEvents[k].snakeId = id)
              => id \in DOMAIN lootLog
  /\ lastPhase = "food" =>
       \A k \in killEvents :
         Cardinality(DOMAIN food) >= lootLog[collisionEvents[k].snakeId][1]

\* a tick has converted a dead worm into as many food items as it had segments
C7_Converted ==
  /\ pc = "idle"
  /\ \E id \in DOMAIN lootLog : lootLog[id] = <<INITIAL_SNAKE_LENGTH>>

\* C8: no two worm-food events of a Collision phase name the same food, the
\* events name consumed food only, the lengths and the scores gained in the
\* phase are those of each consumed food counted once, and no query returns a
\* consumed food afterwards
C8_EatenOnce ==
  lastPhase = "collision" =>
    LET value == [f \in eatenNow |-> food[f].value]
        gain == [id \in DOMAIN snakes |-> snakes[id].length - atCollision.snakes[id].length]
        points == [p \in DOMAIN players |-> players[p].score - atCollision.players[p].score]
    IN /\ \A i, j \in foodEvents :
            collisionEvents[i].targetId = collisionEvents[j].targetId => i = j
       /\ \A k \in foodEvents : collisionEvents[k].targetId \in eatenNow
       /\ Sum(gain, DOMAIN snakes) <= LEN_SCALE * Sum(value, eatenNow)
       /\ Sum(points, DOMAIN players) <= POINTS_PER_FOOD * Sum(value, eatenNow)
       /\ \A f \in eatenNow, id \in DOMAIN snakes :
            LET head == getHead(snakes[id])
                found == getFoodInRadius(foodPositions, head,
                                         head.radius + FOOD_MAX_SIZE * 2, food)
            IN \A i \in DOMAIN found : found[i] # f

\* a food within grab distance of the heads of two living worms was consumed
C8_TwoHeads ==
  /\ lastPhase = "collision"
  /\ \E f \in eatenNow : \E a, b \in DOMAIN snakes :
       /\ a # b
       /\ snakes[a].isAlive /\ snakes[b].isAlive
       /\ inGrab(atCollision.snakes[a], atCollision.food[f])
       /\ inGrab(atCollision.snakes[b], atCollision.food[f])

\* C9: after a Collision phase every food that was unconsumed and within grab
\* distance of the head of a worm that lives through the phase is consumed and
\* named by a worm-food event, and the worm the event names has grown by the
\* value of the food and its player has scored value * POINTS_PER_FOOD
C9_GrabbedFoodEaten ==
  lastPhase = "collision" =>
    \A id \in DOMAIN snakes, f \in DOMAIN atCollision.food :
      (/\ atCollision.snakes[id].isAlive
       /\ snakes[id].isAlive
       /\ ~atCollision.food[f].isConsumed
       /\ inGrab(atCollision.snakes[id], atCollision.food[f])) =>
         /\ food[f].isConsumed
         /\ \E k \in foodEvents :
              LET e == collisionEvents[k]
                  before == atCollision.snakes[e.snakeId]
              IN /\ e.targetId = f
                 /\ snakes[e.snakeId].length > before.length
                      \/ before.length = maxLength * LEN_SCALE
                 /\ before.playerId \in DOMAIN players =>
                      players[before.playerId].score
                        >= atCollision.players[before.playerId].score
                             + food[f].value * POINTS_PER_FOOD

\* the path point just tail-ward of the head
prevPathPoint(W) ==
  IF W.path[Len(W.path)] = W.head /\ Len(W.path) > 1
  THEN W.path[Len(W.path) - 1]
  ELSE W.path[Len(W.path)]

C11_FoodBounded ==
  pc = "idle" => Cardinality(DOMAIN food) <= TargetFoodCount + maxSpawnPerTick

\* the radius of the round world: half the world width
R_map == WORLD_WIDTH \div 2

\* the head of W is farther than R_map from the center of the world
outside(W) ==
  distanceSquared(W.head, Pt(WORLD_WIDTH \div 2, WORLD_HEIGHT \div 2)) > R_map * R_map

\* C12: once the Physics phase of a tick has run, no worm whose head is farther
\* than R_map from the center of the world is alive
C12_BoundaryDeath ==
  lastPhase \in {"physics", "collision", "food", "score"} =>
    \A id \in DOMAIN snakes : outside(snakes[id]) => ~snakes[id].isAlive

\* the length below which a worm cannot boost, in the unit of Snake.length
MIN_BOOST_LENGTH == 10 * LEN_SCALE

C14_DirectionRange ==
  \A id \in DOMAIN snakes : snakes[id].direction > -PI /\ snakes[id].direction <= PI

\* the arc length of a path, in hundredths of a unit
RECURSIVE ArcLength(_)
ArcLength(path) ==
  IF Len(path) <= 1 THEN 0
  ELSE distance(path[1], path[2]) + ArcLength(Tail(path))

\* length * SEG_SPACING in hundredths of a unit, for a Snake.length in fifths
targetArc(W) == (W.length * SEGMENT_SPACING * 100) \div LEN_SCALE

\* C15: at the end of every tick the arc length of the path of every living
\* worm is at most length * SEGMENT_SPACING + PATH_RESOLUTION
C15_PathBounded ==
  pc = "idle" =>
    \A id \in DOMAIN snakes :
      snakes[id].isAlive =>
        ArcLength(snakes[id].path) <= targetArc(snakes[id]) + PATH_RESOLUTION * 100

\* a tick has ended with a living worm that has grown by food and lost length
\* by boosting, and whose path is trimmed to within one step of its target
C15_Trimmed ==
  /\ pc = "idle"
  /\ \E id \in DOMAIN snakes :
       /\ snakes[id].isAlive
       /\ snakes[id].length > INITIAL_SNAKE_LENGTH * LEN_SCALE
       /\ snakes[id].length % LEN_SCALE # 0
       /\ ArcLength(snakes[id].path) >= targetArc(snakes[id]) - maxStepSize * 100

\* the values of the food the worm-food events of the last Collision phase
\* name for the worm id, summed over the events k, k+1, ...
RECURSIVE eatenValue(_, _)
eatenValue(id, k) ==
  IF k > Len(collisionEvents) THEN 0
  ELSE (IF collisionEvents[k].type = "snake-food" /\ collisionEvents[k].snakeId = id
        THEN food[collisionEvents[k].targetId].value ELSE 0)
       + eatenValue(id, k + 1)

C17_PathNonEmpty ==
  \A id \in DOMAIN snakes : snakes[id].isAlive => Len(snakes[id].path) >= 1

\* a living worm has moved, and its path of sub-step points has been trimmed
\* to its target length
C17_MovedAndTrimmed ==
  /\ lastPhase = "physics"
  /\ \E id \in DOMAIN snakes :
       /\ snakes[id].isAlive
       /\ Len(snakes[id].path) > 3 * INITIAL_SNAKE_LENGTH
       /\ ArcLength(snakes[id].path) <= targetArc(snakes[id])

\* the queue with every command that asks to boost sent twice in a row
RECURSIVE twiceBoost(_)
twiceBoost(queue) ==
  IF queue = <<>> THEN <<>>
  ELSE (IF Head(queue).type = "boost" /\ Head(queue).hasBoosting /\ Head(queue).isBoosting
        THEN <<Head(queue), Head(queue)>> ELSE <<Head(queue)>>)
       \o twiceBoost(Tail(queue))

\* worm lengths on both sides of the threshold of setBoosting
BoostLengths == {5 * LEN_SCALE, 5 * LEN_SCALE + 1, 10 * LEN_SCALE}

\* C18: setBoosting(true) applied twice in a row leaves a worm as setBoosting(true)
\* applied once does: the worm the input phase of a tick leaves is the worm it
\* would leave had every request to boost been queued twice, and the same
\* holds of every worm at any length around the threshold
C18_BoostTwiceIsOnce ==
  [][/\ \A id \in DOMAIN snakes : \A l \in BoostLengths :
         LET s == [snakes[id] EXCEPT !.length = l]
         IN setBoosting(setBoosting(s, TRUE), TRUE) = setBoosting(s, TRUE)
     /\ (pc = "input" /\ pc' = "systems") =>
         \A p \in DOMAIN inputQueue :
           LET r == processPlayerInputs(snakes,
                      [inputQueue EXCEPT ![p] = twiceBoost(inputQueue[p])], p)
           IN r.ok => snakes'[r.snakeId] = r.snake]_vars

\* the input phase of a tick has applied a request to boost to a living worm
C18_BoostApplied ==
  /\ pc = "systems"
  /\ \E p \in drain.living :
       /\ \E k \in 1..Len(Get(drain.applied, p)) :
            /\ Get(drain.applied, p)[k].type = "boost"
            /\ Get(drain.applied, p)[k].isBoosting
       /\ \E id \in DOMAIN snakes :
            snakes[id].playerId = p /\ snakes[id].isBoosting

\* what C19 compares of a state: the worms with head, direction, length, score
\* and isBoosting, the food with its positions, and the leaderboard
viewOf(state) ==
  [snakes |-> {[id |-> state.snakes[k].id, head |-> state.snakes[k].head,
                direction |-> state.snakes[k].direction,
                length |-> state.snakes[k].length, score |-> state.snakes[k].score,
                isBoosting |-> state.snakes[k].isBoosting] : k \in DOMAIN state.snakes},
   food |-> {[id |-> state.food[k].id, position |-> state.food[k].position] :
               k \in DOMAIN state.food},
   leaderboard |-> state.leaderboard]

\* C19: the state of a client that has received a full state and then deltas
\* equals the server's state for the player at the last of these deltas: the
\* same worms with the same head, direction, length, score and isBoosting, the
\* same food at the same positions, the same leaderboard
C19_ClientEqualsServer ==
  \A p \in DOMAIN wire :
    (wire[p].hasFull /\ wire[p].hasDelta)
      => viewOf(gameStateRef[p]) = viewOf(wire[p].at)

\* C20: when a broadcast has sent a player the full state, the state cached
\* for the player is the copy of that full state
C20_ResyncCached ==
  \A p \in DOMAIN wire :
    (wire[p].hasFull /\ wire[p].fullCount = updateCount)
      => /\ p \in DOMAIN lastStates
         /\ lastStates[p] = cacheState(wire[p].full)

\* the fields an update for a worm must carry: id, those of head, direction,
\* length and score that differ, and path after a move of more than TELEPORT_DIST
\* or when the cached worm had no path
fieldsDue(oldSnake, newSnake) ==
  {"id"} \cup {f \in {"head", "direction", "length", "score"} : oldSnake[f] # newSnake[f]}
    \cup (IF \/ oldSnake.path = <<>>
             \/ distanceSquared(oldSnake.head, newSnake.head)
                  > TELEPORT_DIST * TELEPORT_DIST
          THEN {"path"} ELSE {})

\* C21: for a worm in both the cached state and the current state of a player,
\* the last delta sent to the player carries an update with exactly the fields
\* due and the current values, and carries no update when only the id is due
C21_UpdateFields ==
  \A p \in DOMAIN wire :
    wire[p].deltaCount > 0 =>
      \A k \in DOMAIN wire[p].at.snakes :
        LET new == wire[p].at.snakes[k]
            old == byId(wire[p].from.snakes, new.id)
            upd == byId(wire[p].updated, new.id)
        IN old # <<>> =>
             IF fieldsDue(old[1], new) = {"id"} THEN upd = <<>>
             ELSE /\ Len(upd) = 1
                  /\ DOMAIN upd[1] = fieldsDue(old[1], new)
                  /\ \A f \in DOMAIN upd[1] : upd[1][f] = new[f]

\* a delta has carried the path of a worm that jumped, and a delta has carried
\* the head of a worm without its path
C21_PathAfterJump ==
  \E p \in DOMAIN wire :
    /\ wire[p].deltaCount > 0
    /\ \E k \in DOMAIN wire[p].updated : "path" \in DOMAIN wire[p].updated[k]

C21_HeadWithoutPath ==
  \E p \in DOMAIN wire :
    /\ wire[p].deltaCount > 0
    /\ \E k \in DOMAIN wire[p].updated :
         /\ "head" \in DOMAIN wire[p].updated[k]
         /\ "path" \notin DOMAIN wire[p].updated[k]

(***************************************************************************)
(* Clients that name a room when they join: 'main', or a room that the     *)
(* RoomManager does not hold                                               *)
(***************************************************************************)
\* the values of data.roomId || 'main' in a join_room message
RoomIds == {"main", "arena"}

NextRooms ==
  \/ /\ now = 0
     /\ nextId.player <= MaxPlayers
     /\ \E sock \in {1, 2}, roomId \in RoomIds, sp \in SpawnPoints :
          joinRoom(sock, roomId, sp[1], sp[2])
  \/ \E sock \in {1, 2}, input \in Inputs(now), sp \in SpawnPoints :
       HandleInput(sock, input, sp[1], sp[2])
  \/ \E sock \in {1, 2} : Disconnect(sock)
  \/ \E d \in TimeSteps : AdvanceTime(d)
  \/ TickBegin
  \/ Tick

SpecRooms == Init /\ [][NextRooms]_vars

\* C22: a player whose client has disconnected is no Player of the World, owns
\* no worm of the World, and has no queue and no rate-limit entry in the input
\* queue, whatever room id the client joined with
C22_DisconnectRemoves ==
  \A p \in gone :
    /\ p \notin DOMAIN players
    /\ \A id \in DOMAIN snakes : snakes[id].playerId # p
    /\ p \notin DOMAIN inputQueue
    /\ p \notin DOMAIN lastInputTime

\* C23: the delta cache holds no state for a player whose client has
\* disconnected, and every player id of the cache is the id of a Player of the
\* World
C23_CacheOfPlayers ==
  /\ \A p \in gone : p \notin DOMAIN lastStates
  /\ \A p \in DOMAIN lastStates : p \in DOMAIN players

(***************************************************************************)
(* One client that sends commands of every type, some of them malformed,   *)
(* stale or too soon after the last one                                    *)
(***************************************************************************)
\* the gap to a command that arrives before the rate limit allows it
EARLY_MS == ARRIVAL_MS - 12

\* commands of every type, and for each a rejected form: a spawn without a
\* name and one too old, a command of unknown type, one without timestamp
RejectInputs(t) ==
  QueueInputs(t)
    \cup {Msg("spawn", 0, FALSE, FALSE, FALSE, FALSE, t),
          SpawnCmd(t - (MAX_TIMESTAMP_DIFF + 1)),
          Msg("emote", 0, FALSE, FALSE, FALSE, FALSE, t),
          Boost(TRUE, 0)}

NextReject ==
  \/ JoinOnce
  \/ \E d \in {EARLY_MS, ARRIVAL_MS} :
       /\ now + d <= RejectTime
       /\ \E input \in RejectInputs(now + d), sp \in SpawnPoints :
            Arrive(1, d, input, sp[1], sp[2])
  \/ TickDue
  \/ Tick

SpecReject == Init /\ [][NextReject]_vars

\* C24: a command that the InputHandler rejects changes nothing: the queues,
\* the last-accepted times, the players, the worms (none is created, none
\* gets a new target direction or boost flag) and the food stay as they were
C24_RejectedNoEffect ==
  [][(inputCount' = inputCount + 1 /\ ~lastInput'[1].ok)
       => UNCHANGED <<inputQueue, lastInputTime, players, snakes, food, nextId>>]_vars

\* a well-formed spawn command with a fresh timestamp has been rejected, for
\* it came too soon after an accepted command
C24_SpawnRateLimited ==
  /\ lastInput # <<>>
  /\ lastInput[1].input = SpawnCmd(lastInput[1].t)
  /\ ~lastInput[1].ok
  /\ lastInput[1].playerId \in DOMAIN lastInputTime
  /\ lastInput[1].t - lastInputTime[lastInput[1].playerId] = EARLY_MS

(***************************************************************************)
(* Two clients and a broadcaster whose work for a client may throw         *)
(***************************************************************************)
NextFault ==
  \/ /\ now = 0
     /\ \E sock \in {1, 2}, sp \in SpawnPoints : JoinRoom(sock, sp[1], sp[2])
  \/ \E d \in TimeSteps : AdvanceTime(d)
  \/ TickBegin
  \/ Tick
  \/ updateCount < MaxBroadcasts /\ broadcast
  \/ updateCount < MaxBroadcasts /\ broadcastThrows

SpecFault == Init /\ [][NextFault]_vars

\* C25: in a call of broadcast() in which the work for one client throws,
\* every other client of the room has been sent its update
C25_OthersServed ==
  castLog.threw => Cardinality(castLog.due \ castLog.done) <= 1

(***************************************************************************)
(* A loop in which the input phase or a system of a tick may throw         *)
(***************************************************************************)
NextThrow ==
  \/ JoinOnce
  \/ \E d \in TimeSteps : now + d <= ThrowTime /\ AdvanceTime(d)
  \/ TickBegin
  \/ Tick
  \/ TickThrow

SpecThrow == Init /\ [][NextThrow]_vars

\* C26: when a tick ends because its input phase or one of its systems threw,
\* the players, worms and food are those the World had when the tick began,
\* and current_tick is what it was
C26_ThrownTickDropped ==
  [][(~tickBase.threw /\ tickBase'.threw)
       => /\ players' = tickBase.players
          /\ snakes' = tickBase.snakes
          /\ food' = tickBase.food
          /\ currentTick' = tickBase.currentTick]_vars

(***************************************************************************)
(* Players whose ids get their random parts in any order                  *)
(***************************************************************************)
\* the random parts of the ids, as their places in the order of the strings
RandomParts == {1, 2}

NextBoard ==
  \/ /\ now = 0
     /\ nextId.player <= MaxPlayers
     /\ \E sock \in {1, 2}, random \in RandomParts, sp \in SpawnPoints :
          join_room(sock, GoodName, "main", random, sp[1], sp[2])
  \/ \E d \in TimeSteps : AdvanceTime(d)
  \/ TickBegin
  \/ Tick

SpecBoard == Init /\ [][NextBoard]_vars

\* the order of the id strings `player-<timestamp>-<random>`
idBefore(a, b) ==
  \/ a.timestamp < b.timestamp
  \/ a.timestamp = b.timestamp /\ a.random < b.random

\* the leaderboard has min(LEADERBOARD_SIZE, players) entries of distinct
\* players, ranked 1..k, scores non-increasing, and no player left out has a
\* higher score than an entry
boardShape ==
  LET k == Min(LEADERBOARD_SIZE, Cardinality(DOMAIN players))
      listed == {leaderboard[i].playerId : i \in DOMAIN leaderboard}
  IN /\ Len(leaderboard) = k
     /\ listed \subseteq DOMAIN players
     /\ Cardinality(listed) = k
     /\ \A i \in DOMAIN leaderboard :
          /\ leaderboard[i].rank = i
          /\ leaderboard[i].score = players[leaderboard[i].playerId].score
          /\ \A j \in DOMAIN leaderboard : i < j => leaderboard[i].score >= leaderboard[j].score
          /\ \A p \in DOMAIN players \ listed : players[p].score <= leaderboard[i].score

\* C27: after the Score phase of a tick the leaderboard has the shape above,
\* and two entries of equal score stand in ascending order of player id
C27_LeaderboardOrder ==
  (pc = "increment") =>
    /\ boardShape
    /\ \A i, j \in DOMAIN leaderboard :
         (i < j /\ leaderboard[i].score = leaderboard[j].score)
           => idBefore(players[leaderboard[i].playerId].text,
                       players[leaderboard[j].playerId].text)

\* C28: the snapshot that a broadcast builds for a player whose worm is alive
\* holds every living worm with its head within VIEWPORT_RADIUS +
\* VIEWPORT_BUFFER of the head of the player's worm, that worm included, and
\* every unconsumed food item within that distance of the head
C28_SnapshotComplete ==
  pc = "idle" =>
    \A p \in DOMAIN players :
      LET snakeId == getSnakeByPlayerId(snakes, p)
          searchRadius == VIEWPORT_RADIUS + VIEWPORT_BUFFER
      IN (snakeId # 0 /\ snakes[snakeId].isAlive) =>
           LET snap == serializeStateForPlayer(p)
               near(pt) == distanceSquared(pt, snakes[snakeId].head)
                             <= searchRadius * searchRadius
           IN /\ \A id \in DOMAIN snakes :
                   (snakes[id].isAlive /\ near(snakes[id].head))
                     => \E k \in DOMAIN snap.snakes : snap.snakes[k].id = id
              /\ \A f \in DOMAIN food :
                   (~food[f].isConsumed /\ near(food[f].position))
                     => \E k \in DOMAIN snap.food : snap.food[k].id = f

(***************************************************************************)
(* Clients that join with names of every kind                              *)
(***************************************************************************)
\* data.playerName: absent, '', the number 42, 'Al', 'a b_c-9', twenty times
\* 'a', twenty-one times 'a', 'a!b'
JoinNames ==
  {NoName, Name(0, {}), [given |-> TRUE, string |-> FALSE, length |-> 0, chars |-> {}],
   GoodName, Name(7, {"a", " ", "b", "_", "c", "-", "9"}),
   Name(NAME_MAX, {"a"}), Name(NAME_MAX + 1, {"a"}), Name(3, {"a", "!", "b"})}

NextNames ==
  \/ /\ now = 0
     /\ joinLog.count < MaxJoins
     /\ \E sock \in {1, 2}, playerName \in JoinNames, sp \in SpawnPoints :
          /\ validatePlayerName(playerName) => nextId.player <= MaxPlayers
          /\ join_room(sock, playerName, "main", nextId.player, sp[1], sp[2])
  \/ \E d \in TimeSteps : AdvanceTime(d)
  \/ TickBegin
  \/ Tick

SpecNames == Init /\ [][NextNames]_vars

\* a name that is missing, empty, longer than NAME_MAX characters, or has a
\* character outside [A-Za-z0-9 _-]
badName(name) ==
  \/ ~name.given
  \/ name.string /\ (name.length = 0 \/ name.length > NAME_MAX
                       \/ ~(name.chars \subseteq LegalChars))

NextFull ==
  /\ now = 0
  /\ nextId.player <= MaxSockets
  /\ \E sp \in {CHOOSE sp \in SpawnPoints : TRUE} :
       handleJoinRoom(nextId.player, sp[1], sp[2])

SpecFull == Init /\ [][NextFull]_vars

\* C30: the room never has more than MAX_PLAYERS_PER_ROOM players
C30_RoomNotOverfull ==
  Cardinality(DOMAIN players) <= MAX_PLAYERS_PER_ROOM

(***************************************************************************)
(* Calls of the RoomManager, while the default room's loop ticks on an     *)
(* empty World                                                             *)
(***************************************************************************)
\* the ids a caller may pass
RoomNames == {"main", "arena", "duel"}

\* a call of createRoom, destroyRoom or assignPlayerToRoom between two handlers
ManagerCall ==
  /\ pc = "idle"
  /\ managerLog.count < MaxCalls
  /\ \/ \E roomId \in RoomNames :
          /\ rooms' = createRoom(rooms, roomId)
          /\ managerLog' = [count |-> managerLog.count + 1, op |-> "createRoom",
                            arg |-> roomId, result |-> roomId]
     \/ \E roomId \in RoomNames :
          /\ rooms' = destroyRoom(rooms, roomId)
          /\ managerLog' = [count |-> managerLog.count + 1, op |-> "destroyRoom",
                            arg |-> roomId, result |-> ""]
     \/ \E playerId \in {"player-1"} :
          /\ rooms' = rooms
          /\ managerLog' = [count |-> managerLog.count + 1, op |-> "assignPlayerToRoom",
                            arg |-> playerId, result |-> assignPlayerToRoom(playerId)]
  /\ UNCHANGED <<now, worldVars, gridVars, inputVars, tickVars, systemVars, historyVars,
                 netVars>>

NextManager ==
  \/ ManagerCall
  \/ \E d \in {TICK_MS} : now + d <= ThrowTime /\ AdvanceTime(d)
  \/ TickBegin
  \/ Tick

SpecManager == Init /\ [][NextManager]_vars

\* the default room is among the rooms, and every room's loop is running on
\* exactly one timer; the last assignPlayerToRoom returned the default room
managerOK ==
  /\ defaultRoomId \in DOMAIN rooms
  /\ \A id \in DOMAIN rooms : rooms[id].isRunning /\ rooms[id].timers = 1
  /\ managerLog.op = "assignPlayerToRoom" => managerLog.result = defaultRoomId

\* C31: after any calls of createRoom, destroyRoom and assignPlayerToRoom the
\* default room exists with its loop running on one timer and
\* assignPlayerToRoom has returned its id; destroyRoom of the default room and
\* createRoom of an id in use leave the rooms as they are
C31_DefaultRoomStays ==
  /\ [](managerOK)
  /\ [][(/\ managerLog'.count = managerLog.count + 1
         /\ \/ managerLog'.op = "destroyRoom" /\ managerLog'.arg = defaultRoomId
            \/ managerLog'.op = "createRoom" /\ managerLog'.arg \in DOMAIN rooms)
          => rooms' = rooms]_vars

\* destroyRoom has been called for the default room while another room
\* existed, and the loop has ticked since
C31_DestroyDefaultTried ==
  /\ managerLog.op = "destroyRoom"
  /\ managerLog.arg = defaultRoomId
  /\ DOMAIN rooms # {defaultRoomId}
  /\ currentTick > 0

\* C32: a player whose worm has died and is no longer in the World is marked
\* not alive and has no current worm
C32_DeadPlayerMarked ==
  \A p \in DOMAIN players :
    players[p].snakeId \notin DOMAIN snakes
      => ~players[p].isAlive /\ players[p].snakeId = 0

\* C33: a client that has been sent a delta was sent a full state before it,
\* and the cached state a delta is computed against is the copy of the state
\* the client holds when the delta is sent
C33_DeltaAfterFull ==
  /\ [](\A p \in DOMAIN wire : wire[p].deltaCount > 0 => wire[p].hasFull)
  /\ [][\A p \in DOMAIN wire' :
          (wire'[p].deltaCount = updateCount' /\ updateCount' # updateCount)
            => /\ p \in DOMAIN gameStateRef
               /\ wire'[p].from = cacheState(gameStateRef[p])]_vars

\* the sign of an angle
sign(a) == IF a > 0 THEN 1 ELSE IF a < 0 THEN -1 ELSE 0

\* C34: in the Physics phase of a tick the direction of a living worm changes
\* by at most MAX_TURN, and the worm does not turn past its target direction
C34_TurnBounded ==
  [][(pc = "systems" /\ phaseLog' = Append(phaseLog, "physics"))
       => \A id \in DOMAIN snakes :
            snakes[id].isAlive =>
              LET turned == angleDifference(snakes[id].direction, snakes'[id].direction)
                  before == angleDifference(snakes[id].direction,
                                            snakes[id].targetDirection)
                  after == angleDifference(snakes'[id].direction,
                                           snakes'[id].targetDirection)
              IN /\ turned <= MAX_TURN /\ turned >= -MAX_TURN
                 /\ sign(before) * sign(after) >= 0]_vars

\* headings a client may ask for that lie within a few turns of a spawn heading
TurnDirections == {MAX_TURN \div 2, 3 * MAX_TURN}

\* one worm, one direction-change, and a loop whose ticks fire on time
NextTurn ==
  \/ JoinOnce
  \/ \E d \in TurnDirections, sp \in SpawnPoints :
       HandleInput(1, DirectionChange(d, now), sp[1], sp[2])
  \/ /\ currentTick < TurnTicks
     /\ now - lastTickTime < TICK_MS
     /\ AdvanceTime(TICK_MS)
  \/ TickDue
  \/ Tick

SpecTurn == Init /\ [][NextTurn]_vars

\* the Physics phase of a tick has just run
physicsDone == pc = "systems" /\ phaseLog # <<>> /\ phaseLog[Len(phaseLog)] = "physics"

\* C35: a living worm whose target direction is held reaches it and stays on
\* it without oscillating: once on the target it stays there, and it never
\* comes back to a direction off the target that it had two ticks earlier
\* with the same target
C35_TurnSettles ==
  /\ [](physicsDone =>
         \A id \in DOMAIN snakes \cap DOMAIN tickBase.snakes \cap DOMAIN tickBase.before :
           LET was == tickBase.before[id]
               mid == tickBase.snakes[id]
               s == snakes[id]
           IN (s.isAlive /\ was.targetDirection = s.targetDirection
                 /\ mid.targetDirection = s.targetDirection)
                => s.direction = s.targetDirection \/ s.direction # was.direction)
  /\ [][(pc = "systems" /\ phaseLog' = Append(phaseLog, "physics"))
          => \A id \in DOMAIN snakes :
               (snakes[id].isAlive /\ snakes[id].direction = snakes[id].targetDirection)
                 => snakes'[id].direction = snakes'[id].targetDirection]_vars

\* the positions of the boost commands among the commands applied in a drain
boosts(applied) == {i \in 1..Len(applied) : applied[i].type = "boost"}

\* C36: right after the input phase has applied set_boosting(b) to a worm, the
\* worm is boosting exactly when b is true and its length is above
\* MIN_BOOST_LENGTH: a worm of length 10 or less is never left boosting
C36_BoostFlagSet ==
  [][(pc = "input" /\ pc' = "systems")
       => \A p \in DOMAIN inputQueue :
            LET r == processPlayerInputs(snakes, inputQueue, p)
            IN (r.ok /\ boosts(r.applied) # {})
                 => LET i == CHOOSE i \in boosts(r.applied) :
                                 \A j \in boosts(r.applied) : j <= i
                        b == r.applied[i].isBoosting
                        s == snakes'[r.snakeId]
                    IN s.isBoosting <=> (b /\ s.length > MIN_BOOST_LENGTH)]_vars

\* C37: the segments of every living worm start with the head, number at most
\* `length`, are pairwise different points, and each lies SEGMENT_SPACING
\* along the path from the one before it (so, the path bending, at most
\* SEGMENT_SPACING away from it, a unit of rounding allowed)
C37_SegmentsSpaced ==
  \A id \in DOMAIN snakes :
    snakes[id].isAlive =>
      LET segs == getSegments(snakes[id])
          at(i) == Pt(segs[i].x, segs[i].y)
      IN /\ at(1) = snakes[id].head
         /\ Len(segs) * LEN_SCALE <= snakes[id].length
         /\ \A i, j \in 1..Len(segs) : at(i) = at(j) => i = j
         /\ \A i \in 2..Len(segs) :
              distanceSquared(at(i - 1), at(i))
                <= (SEGMENT_SPACING + 1) * (SEGMENT_SPACING + 1)

\* C38: when the Collision phase is about to run and whenever a broadcast may
\* run (between ticks), the food grid holds exactly the unconsumed food of the
\* World, each under the cell of its position, and getFoodInRadius returns
\* every unconsumed food within the radius
C38_FoodGridExact ==
  (pc = "idle" \/ (pc = "systems" /\ lastPhase = "physics")) =>
    LET live == {f \in DOMAIN food : ~food[f].isConsumed}
    IN /\ DOMAIN foodPositions = live
       /\ \A f \in live :
            foodPositions[f] = getCellKey(food[f].position.x, food[f].position.y)
       /\ \A f \in live, id \in DOMAIN snakes :
            LET head == getHead(snakes[id])
                r == head.radius + FOOD_MAX_SIZE * 2
                found == getFoodInRadius(foodPositions, head, r, food)
            IN distanceSquared(food[f].position, head) <= r * r
                 => \E i \in DOMAIN found : found[i] = f

(***************************************************************************)
(* One client that stays while a second socket joins again and again, a   *)
(* broadcast after every join                                              *)
(***************************************************************************)
NextCache ==
  \/ /\ now = 0
     /\ nextId.player <= CachePlayers
     /\ DOMAIN players \subseteq DOMAIN lastStates
     /\ \E sp \in {CHOOSE sp \in SpawnPoints : TRUE} :
          handleJoinRoom(IF players = EmptyMap THEN 1 ELSE 2, sp[1], sp[2])
  \/ /\ ~(DOMAIN players \subseteq DOMAIN lastStates)
     /\ broadcast

SpecCache == Init /\ [][NextCache]_vars

\* the players whose state the call of broadcast() that this step is has cached
written == IF updateCount' % RESYNC_INTERVAL = 0 THEN {} ELSE castLog'.done

\* C39: the cache never holds more than maxCachedStates entries, and a call
\* of broadcast() never evicts the entry of a player whose state it has just
\* cached while it keeps an entry that it has not touched
C39_CacheEvictsOldest ==
  /\ [](Cardinality(DOMAIN lastStates) <= maxCachedStates)
  /\ [][(updateCount' # updateCount /\ ~castLog'.threw)
          => \A p \in DOMAIN lastStates \ DOMAIN lastStates' :
               p \in written => DOMAIN lastStates' \subseteq written]_vars

(***************************************************************************)
(* A server whose FoodSystem keeps RespawnTarget food, its loop on time   *)
(***************************************************************************)
InitRespawn == Boot(RespawnTarget)

NextRespawn ==
  \/ now = 0 /\ JoinOnce
  \/ /\ currentTick < RespawnTicks
     /\ now - lastTickTime < TICK_MS
     /\ AdvanceTime(TICK_MS)
  \/ TickDue
  \/ Tick

SpecRespawn == InitRespawn /\ [][NextRespawn]_vars

\* the number of food items spawnFood finds in the World in the Food phase
\* that is about to run
foodFound == Cardinality(DOMAIN beforeSpawn(CHOOSE r \in LootRadii : TRUE).food)

\* C40: the Food phase of a tick adds min(target - |Food|, maxSpawnPerTick)
\* food items when the World has fewer than the target and none otherwise,
\* and never takes |Food| above the target; no worm having died, the World
\* that began without food has min(target, maxSpawnPerTick * ticks) items
\* after every tick, the target from tick ceil(target / maxSpawnPerTick) on
C40_RespawnFills ==
  /\ [][(pc = "systems" /\ phaseLog' = Append(phaseLog, "food"))
          => LET target == rooms[defaultRoomId].targetFoodCount
                 added == Cardinality(DOMAIN food') - foodFound
             IN /\ added = IF foodFound < target
                           THEN Min(target - foodFound, maxSpawnPerTick)
                           ELSE 0
                /\ Cardinality(DOMAIN food') <= Max(foodFound, target)]_vars
  /\ []((pc = "idle" /\ lootLog = EmptyMap)
          => LET target == rooms[defaultRoomId].targetFoodCount
             IN /\ Cardinality(DOMAIN food) = Min(target, maxSpawnPerTick * currentTick)
                /\ currentTick >= CeilDiv(target, maxSpawnPerTick)
                     => Cardinality(DOMAIN food) = target)

\* the World has reached the target in ticks that added maxSpawnPerTick items
\* and a tick at the target has added none
C40_TargetReached ==
  /\ pc = "idle"
  /\ currentTick = CeilDiv(RespawnTarget, maxSpawnPerTick) + 1
  /\ tickBase.currentTick = CeilDiv(RespawnTarget, maxSpawnPerTick)
  /\ RespawnTarget > maxSpawnPerTick
  /\ Cardinality(DOMAIN tickBase.food) = RespawnTarget
  /\ Cardinality(DOMAIN food) = RespawnTarget
  /\ snakes # EmptyMap

=============================================================================
